---- MODULE Spec2Model ----
(***************************************************************************)
(* A model of the line editor of nao1215/prompt: the session loop of       *)
(* Prompt.RunWithContext (prompt.go), its helpers, and the history store   *)
(* of HistoryManager.  Text is a sequence of runes; a rune is a            *)
(* one-character string, or the name of a control code or of a rune        *)
(* outside ASCII.  A Go string is the sequence of the bytes of its runes.  *)
(***************************************************************************)
EXTENDS Integers, Sequences, FiniteSets, TLC

VARIABLES
    pc,                 \* where the prompt is: idle, main, esc, search, done
    buffer,             \* Prompt.buffer
    cursor,             \* Prompt.cursor
    suggestions,        \* RunWithContext local: texts of the suggestions shown
    selectedSuggestion, \* RunWithContext local
    suggestionOffset,   \* RunWithContext local
    historyIndex,       \* RunWithContext local
    history,            \* Prompt.history
    hmHistory,          \* HistoryManager.history
    enabled,            \* HistoryConfig.Enabled
    completerSet,       \* Config.Completer is not nil
    maxBackups,         \* HistoryConfig.MaxBackups as the host wrote it
    keyboard,           \* terminal: which keys its user presses
    files,              \* the history file and its backups: index 0 is the file
    saveErr,            \* the error of the last HistoryManager.SaveHistory
    r,                  \* RunWithContext local: the rune the loop read last
    seq,                \* readEscapeSequence local: the sequence read so far, or
                        \* the one it returned in the last step of the main loop
    action,             \* RunWithContext local: the action resolved last
    pending,            \* terminal: runes of the current key press not yet read
    searchBuffer,       \* searchHistory local
    searchResults,      \* searchHistory local
    selectedIndex,      \* searchHistory local
    rawMode,            \* terminal: in raw mode
    restoreCalls,       \* terminal: calls of Restore since the session began
    restored,           \* RunWithContext local flag
    ctxDone,            \* the context is cancelled
    outcome,            \* how RunWithContext returned: its error
    result,             \* the string RunWithContext returned
    lastLines,          \* renderer.lastLines
    suggestionsActive,  \* renderer.suggestionsActive
    output,             \* what the last call of the renderer wrote
    call                \* the arguments of the last call of the renderer

editVars == <<buffer, cursor>>

suggVars == <<suggestions, selectedSuggestion, suggestionOffset>>

histVars == <<history, hmHistory, enabled, files, saveErr>>

keyVars == <<r, seq, action>>

searchVars == <<searchBuffer, searchResults, selectedIndex>>

termVars == <<rawMode, restoreCalls, restored>>

endVars == <<outcome, result>>

cfgVars == <<completerSet, keyboard, maxBackups>>

rendVars == <<lastLines, suggestionsActive, output, call>>

vars == <<pc, editVars, suggVars, historyIndex, histVars, cfgVars, keyVars, pending,
          searchVars, termVars, ctxDone, endVars, rendVars>>

----------------------------------------------------------------------------
(* Bounds of the model. *)

\* longest buffer the model lets the session build
MaxBuf == 3
\* HistoryConfig.MaxEntries as configured by the host of the model
MaxEntries == 2
\* longest query typed in history search
MaxQuery == 1
\* HistoryConfig.MaxFileSize as configured, in bytes
MaxFileSize == 4
\* the largest HistoryConfig.MaxBackups a host of the model writes
MaxBackups == 1
\* longest buffer a suggestion is accepted into, away from a session
MaxAccept == 3

----------------------------------------------------------------------------
(* Text helpers: Go's strings package on sequences of characters. *)

NL == "\n"

Min(a, b) == IF a < b THEN a ELSE b

Max(a, b) == IF a > b THEN a ELSE b

\* s[from:to] of Go, 0-based, half-open
Slice(s, from, to) == SubSeq(s, from + 1, to)

HasPrefix(s, p) == Len(p) <= Len(s) /\ SubSeq(s, 1, Len(p)) = p

HasSuffix(s, p) == Len(p) <= Len(s) /\ SubSeq(s, Len(s) - Len(p) + 1, Len(s)) = p

Contains(s, sub) == \E i \in 0..(Len(s) - Len(sub)) : SubSeq(s, i + 1, i + Len(sub)) = sub

\* slices.Contains(p.buffer, '\n')
ContainsRune(s, c) == \E i \in 1..Len(s) : s[i] = c

IsSpace(c) == c \in {" ", "\t", NL}

LowerLetters == {"a", "b", "c", "d", "f", "h"}

UpperLetters == {"A", "B", "C", "D", "F", "H"}

DigitRunes == {"0", "1", "2", "3", "4", "5", "6", "7", "8", "9"}

isWordChar(c) == c \in LowerLetters \/ c \in UpperLetters \/ c \in DigitRunes \/ c = "_"

\* strings.ToLower, one rune
ToLowerRune(c) ==
    CASE c = "A" -> "a" [] c = "B" -> "b" [] c = "C" -> "c" [] c = "D" -> "d"
      [] c = "F" -> "f" [] c = "H" -> "h" [] OTHER -> c

ToLower(s) == [i \in 1..Len(s) |-> ToLowerRune(s[i])]

----------------------------------------------------------------------------
(* Strings and runes.  An ASCII rune is one byte, named as the rune; the   *)
(* model has one rune of two bytes, and the replacement rune that Go puts  *)
(* in place of a byte that is no UTF-8.                                    *)

\* the rune U+00E9, of the two bytes 0xC3 0xA9
EAcute == "U+00E9"

\* utf8.RuneError, of the three bytes 0xEF 0xBF 0xBD
RuneError == "U+FFFD"

\* the bytes that are part of a rune outside ASCII
HighBytes == {"0xC3", "0xA9", "0xEF", "0xBF", "0xBD"}

\* the UTF-8 encoding of a rune
Utf8(c) ==
    IF c = EAcute THEN <<"0xC3", "0xA9">>
    ELSE IF c = RuneError THEN <<"0xEF", "0xBF", "0xBD">>
    ELSE <<c>>

\* string(runes): the bytes of the runes, in order
RECURSIVE String(_)
String(runes) ==
    IF runes = <<>> THEN <<>> ELSE Utf8(Head(runes)) \o String(Tail(runes))

\* []rune(str): the runes of the bytes, a byte that begins no encoding
\* giving the replacement rune
RECURSIVE Runes(_)
Runes(str) ==
    IF str = <<>> THEN <<>>
    ELSE IF HasPrefix(str, Utf8(EAcute))
    THEN <<EAcute>> \o Runes(SubSeq(str, 3, Len(str)))
    ELSE IF HasPrefix(str, Utf8(RuneError))
    THEN <<RuneError>> \o Runes(SubSeq(str, 4, Len(str)))
    ELSE IF Head(str) \in HighBytes
    THEN <<RuneError>> \o Runes(Tail(str))
    ELSE <<Head(str)>> \o Runes(Tail(str))

----------------------------------------------------------------------------
(* Document: the view of the input handed to completers.  Text is a string *)
(* and the cursor position an index into it.                               *)

TextBeforeCursor(text, pos) ==
    IF pos < 0 \/ pos > Len(text) THEN text ELSE Slice(text, 0, pos)

\* the backward scan of GetWordBeforeCursor: the index before the word's start
RECURSIVE ScanWordStart(_, _)
ScanWordStart(text, start) ==
    IF start >= 0 /\ ~IsSpace(text[start + 1])
    THEN ScanWordStart(text, start - 1)
    ELSE start

GetWordBeforeCursor(text, pos) ==
    LET t == TextBeforeCursor(text, pos)
    IN  IF Len(t) = 0 THEN <<>>
        ELSE IF IsSpace(t[Len(t)]) THEN <<>>
        ELSE Slice(t, ScanWordStart(t, Len(t) - 1) + 1, Len(t))

----------------------------------------------------------------------------
(* The edit buffer: each operator returns the new (buffer, cursor).        *)

Edit(b, c) == [buffer |-> b, cursor |-> c]

insertRune(b, c, ch) == Edit(Slice(b, 0, c) \o <<ch>> \o Slice(b, c, Len(b)), c + 1)

\* text is a string
insertText(b, c, text) ==
    LET runes == Runes(text)
    IN  Edit(Slice(b, 0, c) \o runes \o Slice(b, c, Len(b)), c + Len(runes))

setBuffer(text) == Edit(text, Len(text))

isMultiLine(b) == ContainsRune(b, NL)

\* an isShiftEnter that never asks for a newline
isShiftEnterNever(b) == FALSE

isShiftEnter(b) == isMultiLine(b)

RECURSIVE SkipForward(_, _, _)
\* advance pos while pos < len(b) and the rune at pos is (word = TRUE) or is
\* not (word = FALSE) a word character
SkipForward(b, pos, word) ==
    IF pos < Len(b) /\ (isWordChar(b[pos + 1]) = word)
    THEN SkipForward(b, pos + 1, word)
    ELSE pos

RECURSIVE SkipBackNonWord(_, _)
SkipBackNonWord(b, pos) ==
    IF pos > 0 /\ ~isWordChar(b[pos + 1]) THEN SkipBackNonWord(b, pos - 1) ELSE pos

RECURSIVE SkipBackWord(_, _)
SkipBackWord(b, pos) ==
    IF pos > 0 /\ isWordChar(b[pos]) THEN SkipBackWord(b, pos - 1) ELSE pos

\* a findWordBoundary that does not step back before it scans backward
findWordBoundaryNoStepBack(b, c, direction) ==
    IF direction > 0
    THEN SkipForward(b, SkipForward(b, c, FALSE), TRUE)
    ELSE SkipBackWord(b, IF c < Len(b) THEN SkipBackNonWord(b, c) ELSE c)

findWordBoundary(b, c, direction) ==
    IF direction > 0
    THEN SkipForward(b, SkipForward(b, c, FALSE), TRUE)
    ELSE LET pos == IF c > 0 THEN c - 1 ELSE c
         IN  SkipBackWord(b, SkipBackNonWord(b, pos))

RECURSIVE findLineStartFrom(_, _)
findLineStartFrom(b, pos) ==
    IF pos > 0 /\ b[pos] # NL THEN findLineStartFrom(b, pos - 1) ELSE pos

findLineStart(b, c) == findLineStartFrom(b, c)

RECURSIVE findLineEndFrom(_, _)
findLineEndFrom(b, pos) ==
    IF pos < Len(b) /\ b[pos + 1] # NL THEN findLineEndFrom(b, pos + 1) ELSE pos

findLineEnd(b, c) == findLineEndFrom(b, c)

\* a findCursorUp that always lands at the end of the previous line
findCursorUpToEnd(b, c) ==
    LET lineStart == findLineStart(b, c)
    IN  IF lineStart = 0 THEN c ELSE lineStart - 1

findCursorUp(b, c) ==
    LET lineStart == findLineStart(b, c)
        column == c - lineStart
        prevLineEnd == lineStart - 1
        \* the loop from prevLineEnd-1 down to 0 looking for a newline
        nls == {i \in 0..(prevLineEnd - 1) : b[i + 1] = NL}
        prevLineStart == IF nls = {} THEN 0
                         ELSE (CHOOSE i \in nls : \A j \in nls : j <= i) + 1
        prevLineLength == prevLineEnd - prevLineStart
    IN  IF lineStart = 0 THEN c
        ELSE IF column < prevLineLength THEN prevLineStart + column
        ELSE prevLineEnd

findCursorDown(b, c) ==
    LET lineStart == findLineStart(b, c)
        lineEnd == findLineEnd(b, c)
        column == c - lineStart
        nextLineStart == lineEnd + 1
        nls == {i \in nextLineStart..(Len(b) - 1) : b[i + 1] = NL}
        nextLineEnd == IF nls = {} THEN Len(b)
                       ELSE CHOOSE i \in nls : \A j \in nls : i <= j
        nextLineLength == nextLineEnd - nextLineStart
    IN  IF lineEnd >= Len(b) THEN c
        ELSE IF column < nextLineLength THEN nextLineStart + column
        ELSE nextLineEnd

\* (start, end) of the word under the cursor
getCurrentWordBounds(b, c) ==
    [start |-> SkipBackWord(b, c), end |-> SkipForward(b, c, TRUE)]

\* text is the runes of suggestion.Text
acceptSuggestion(b, c, text) ==
    LET docText == String(b)
        suggestionText == String(text)
        beforeCursor == TextBeforeCursor(docText, c)
        currentWord == GetWordBeforeCursor(docText, c)
    IN  IF currentWord = <<>> THEN insertText(b, c, suggestionText)
        ELSE IF HasPrefix(suggestionText, currentWord)
        THEN insertText(b, c, Slice(suggestionText, Len(currentWord), Len(suggestionText)))
        ELSE IF c = Len(b) \/ ~isWordChar(b[c + 1])
        THEN LET sp == IF beforeCursor # <<>> /\ ~HasSuffix(beforeCursor, <<" ">>)
                       THEN insertText(b, c, <<" ">>)
                       ELSE Edit(b, c)
             IN  insertText(sp.buffer, sp.cursor, suggestionText)
        ELSE LET wb == getCurrentWordBounds(b, c)
                 runes == Runes(suggestionText)
             IN  Edit(Slice(b, 0, wb.start) \o runes \o Slice(b, wb.end, Len(b)),
                      wb.start + Len(runes))

----------------------------------------------------------------------------
(* Runes that are control codes, by name. *)

CR == "CR"

ESC == "ESC"

TAB == "\t"

DEL == "DEL"

BS == "BS"

CtrlA == "^A"

CtrlB == "^B"

CtrlC == "^C"

CtrlD == "^D"

CtrlE == "^E"

CtrlF == "^F"

CtrlK == "^K"

CtrlL == "^L"

CtrlR == "^R"

CtrlU == "^U"

CtrlW == "^W"

ControlRunes == {CR, NL, ESC, TAB, DEL, BS, CtrlA, CtrlB, CtrlC, CtrlD, CtrlE,
                 CtrlF, CtrlK, CtrlL, CtrlR, CtrlU, CtrlW}

\* r >= 32 && r < 127 || r > 127
IsPrintable(c) == c \notin ControlRunes

----------------------------------------------------------------------------
(* The key map. *)

\* KeyMap.bindings as NewDefaultKeyMap fills it
DefaultBindings ==
    (CR :> "Submit") @@ (NL :> "Submit") @@ (CtrlC :> "Cancel") @@
    (CtrlA :> "MoveHome") @@ (CtrlE :> "MoveEnd") @@ (CtrlK :> "DeleteToEnd") @@
    (CtrlU :> "DeleteLine") @@ (CtrlW :> "DeleteWordBack") @@
    (CtrlR :> "HistorySearch") @@ (TAB :> "Complete") @@
    (DEL :> "DeleteChar") @@ (BS :> "DeleteChar")

\* KeyMap.sequences as NewDefaultKeyMap fills it
DefaultSequences ==
    (<<"[", "A">> :> "MoveUp") @@ (<<"[", "B">> :> "MoveDown") @@
    (<<"[", "C">> :> "MoveRight") @@ (<<"[", "D">> :> "MoveLeft") @@
    (<<"[", "H">> :> "MoveHome") @@ (<<"[", "F">> :> "MoveEnd") @@
    (<<"[", "1", ";", "5", "C">> :> "MoveWordRight") @@
    (<<"[", "1", ";", "5", "D">> :> "MoveWordLeft") @@
    (<<"[", "3", "~">> :> "DeleteChar")

\* bindings a host adds with KeyMap.Bind: they win over the defaults
HostBindings ==
    (CtrlL :> "NewLine") @@ (CtrlB :> "MoveWordLeft") @@ (CtrlF :> "MoveWordRight")

Bindings == HostBindings @@ DefaultBindings

GetAction(key) == IF key \in DOMAIN Bindings THEN Bindings[key] ELSE "None"

GetSequenceAction(s) ==
    IF s \in DOMAIN DefaultSequences THEN DefaultSequences[s] ELSE "None"

----------------------------------------------------------------------------
(* The history: HistoryManager and the prompt's own copy.  Each operator   *)
(* of the prompt returns the new pair (history, hmHistory); en is          *)
(* HistoryConfig.Enabled.  newFromConfig always makes a manager, so the    *)
(* branches for a prompt without one are left out.                         *)

Hist(h, hm) == [history |-> h, hm |-> hm]

\* s[len(s)-n:]
LastN(s, n) == SubSeq(s, Len(s) - n + 1, Len(s))

\* HistoryManager.AddEntry
AddEntry(hm, entry, en) ==
    IF ~en \/ entry = <<>> THEN hm
    ELSE IF Len(hm) > 0 /\ hm[Len(hm)] = entry THEN hm
    ELSE Append(hm, entry)

\* HistoryManager.GetHistory
ManagerGetHistory(hm, en) == IF ~en THEN <<>> ELSE hm

\* HistoryManager.SetHistory
ManagerSetHistory(hm, list, en) == IF ~en THEN hm ELSE list

\* HistoryManager.ClearHistory
ManagerClearHistory(hm, en) == IF ~en THEN hm ELSE <<>>

\* Prompt.syncHistoryAfterAdd
syncHistoryAfterAdd(h, hm, en) ==
    IF en
    THEN LET got == ManagerGetHistory(hm, en)
         IN  IF Len(got) > MaxEntries
             THEN Hist(LastN(got, MaxEntries),
                       ManagerSetHistory(hm, LastN(got, MaxEntries), en))
             ELSE Hist(got, hm)
    ELSE Hist(h, hm)

\* Prompt.addToHistory
addToHistory(h, hm, text, en) ==
    IF text = <<>> THEN Hist(h, hm)
    ELSE IF en THEN syncHistoryAfterAdd(h, AddEntry(hm, text, en), en)
    ELSE Hist(h, hm)

\* Prompt.AddHistory
AddHistory(h, hm, command, en) ==
    IF command = <<>> THEN Hist(h, hm)
    ELSE IF en THEN syncHistoryAfterAdd(h, AddEntry(hm, command, en), en)
    ELSE Hist(h, hm)

\* Prompt.ClearHistory
ClearHistory(h, hm, en) == Hist(<<>>, IF en THEN ManagerClearHistory(hm, en) ELSE hm)

\* Prompt.SetHistory
SetHistory(h, hm, list, en) ==
    LET hm1 == IF en THEN ManagerSetHistory(hm, list, en) ELSE hm
        h1 == IF en THEN ManagerGetHistory(hm1, en) ELSE list
    IN  IF Len(h1) > MaxEntries
        THEN Hist(LastN(h1, MaxEntries),
                  IF en THEN ManagerSetHistory(hm1, LastN(h1, MaxEntries), en) ELSE hm1)
        ELSE Hist(h1, hm1)

\* the history part of case ActionSubmit when it returns text
SubmitHistory(h, hm, text, en) ==
    IF text # <<>> /\ (Len(h) = 0 \/ h[Len(h)] # text)
    THEN addToHistory(h, hm, text, en)
    ELSE Hist(h, hm)

----------------------------------------------------------------------------
(* The history file and its backups.  files[0] is the text of the file at  *)
(* HistoryConfig.File and files[i] that of backup i; NoFile stands for a   *)
(* file that does not exist (a text is a sequence of single characters,   *)
(* which NoFile is not).  The alphabet is ASCII: a byte is a rune.  The    *)
(* directory has room for one backup more than any configuration keeps.    *)

NoFile == <<"no file">>

\* newFromConfig: the HistoryConfig.MaxBackups of a prompt made with mb
DefaultMaxBackups == 3

newFromConfigMaxBackups(mb) == IF mb <= 0 THEN DefaultMaxBackups ELSE mb

NoFiles == [i \in 0..(Max(DefaultMaxBackups, MaxBackups) + 1) |-> NoFile]

\* fmt.Fprintln(file, entry) for each entry of list
RECURSIVE WriteEntries(_)
WriteEntries(list) ==
    IF list = <<>> THEN <<>>
    ELSE IF Len(list) = 1 THEN list[1] \o <<NL>>
    ELSE LET half == Len(list) \div 2
         IN  WriteEntries(SubSeq(list, 1, half))
                 \o WriteEntries(SubSeq(list, half + 1, Len(list)))

\* the pieces of text between its newlines, the empty ones included
RECURSIVE Segments(_)
Segments(text) ==
    IF text = <<>> THEN << <<>> >>
    ELSE IF Len(text) = 1
         THEN (IF text[1] = NL THEN << <<>>, <<>> >> ELSE <<text>>)
    ELSE LET half == Len(text) \div 2
             front == Segments(SubSeq(text, 1, half))
             back == Segments(SubSeq(text, half + 1, Len(text)))
         IN  SubSeq(front, 1, Len(front) - 1)
                 \o <<front[Len(front)] \o Head(back)>> \o Tail(back)

\* bufio.Scanner with ScanLines: the lines of text, each without its
\* newline; text after the last newline is a line when it is not empty
ScanLines(text, line) ==
    LET segments == Segments(text)
        lines == <<line \o Head(segments)>> \o Tail(segments)
    IN  IF lines[Len(lines)] = <<>> THEN SubSeq(lines, 1, Len(lines) - 1)
        ELSE lines

\* strings.TrimSpace
RECURSIVE TrimSpace(_)
TrimSpace(t) ==
    IF t = <<>> THEN t
    ELSE IF IsSpace(Head(t)) THEN TrimSpace(Tail(t))
    ELSE IF IsSpace(t[Len(t)]) THEN TrimSpace(SubSeq(t, 1, Len(t) - 1))
    ELSE t

\* HistoryManager.LoadHistory into the history hm, from the file f
LoadHistory(hm, f, en) ==
    IF ~en \/ f = NoFile THEN hm
    ELSE LET lines == ScanLines(f, <<>>)
             trimmed == [i \in 1..Len(lines) |-> TrimSpace(lines[i])]
         IN  hm \o SelectSeq(trimmed, LAMBDA line : line # <<>>)

\* createRotatedFile keeps every entry of a history shorter than this
RotateKeepAll == 100

\* a createRotatedFile that keeps every entry
RotateStartKeepsAll(hm) == 0

\* the index from which createRotatedFile keeps the entries of hm
RotateStart(hm) ==
    LET half == Len(hm) \div 2
        keepEntries == IF half < RotateKeepAll THEN Len(hm) ELSE half
    IN  Max(0, Len(hm) - keepEntries)

\* os.Rename(from, to) of an existing file
Rename(fs, from, to) == [fs EXCEPT ![to] = fs[from], ![from] = NoFile]

\* the loop of rotateHistoryFile that shifts the backups, from backup i down
RECURSIVE ShiftBackups(_, _)
ShiftBackups(fs, i) ==
    IF i < 1 THEN fs
    ELSE ShiftBackups(IF fs[i] # NoFile THEN Rename(fs, i, i + 1) ELSE fs, i - 1)

\* the mutant of rotateHistoryFile: the oldest backup is shifted as well
rotateHistoryFileKeepsOldest(hm, fs, mb) ==
    IF mb <= 0
    THEN [hm |-> hm, files |-> [fs EXCEPT ![0] = <<>>]]
    ELSE LET kept == SubSeq(hm, RotateStart(hm) + 1, Len(hm))
             moved == Rename(ShiftBackups(fs, mb), 0, 1)
         IN  [hm |-> kept, files |-> [moved EXCEPT ![0] = WriteEntries(kept)]]

\* HistoryManager.rotateHistoryFile followed by createRotatedFile, with mb
\* the MaxBackups of the manager: the new (hmHistory, files)
rotateHistoryFile(hm, fs, mb) ==
    IF mb <= 0
    THEN [hm |-> hm, files |-> [fs EXCEPT ![0] = <<>>]]
    ELSE LET kept == SubSeq(hm, RotateStart(hm) + 1, Len(hm))
             removed == [fs EXCEPT ![mb] = NoFile]
             moved == Rename(ShiftBackups(removed, mb - 1), 0, 1)
         IN  [hm |-> kept, files |-> [moved EXCEPT ![0] = WriteEntries(kept)]]

\* HistoryManager.rotateIfNeeded
rotateIfNeeded(hm, fs, mb) ==
    IF fs[0] = NoFile THEN [hm |-> hm, files |-> fs]
    ELSE IF Len(fs[0]) < MaxFileSize THEN [hm |-> hm, files |-> fs]
    ELSE rotateHistoryFile(hm, fs, mb)

\* the mutant of SaveHistory: a file that cannot be created is no error
SaveHistoryIgnoresCreate(hm, fs, mb, en, written) ==
    IF ~en THEN [hm |-> hm, files |-> fs, err |-> "nil"]
    ELSE LET rot == rotateIfNeeded(hm, fs, mb)
         IN  IF written < 0
             THEN [hm |-> rot.hm, files |-> rot.files, err |-> "nil"]
             ELSE [hm |-> rot.hm,
                   files |-> [rot.files EXCEPT
                                 ![0] = WriteEntries(SubSeq(rot.hm, 1,
                                                            Min(written, Len(rot.hm))))],
                   err |-> IF written < Len(rot.hm) THEN "error" ELSE "nil"]

\* HistoryManager.SaveHistory when the file cannot be created (written < 0),
\* when the write of entry written + 1 fails, or when none does (written =
\* len): the new (hmHistory, files) and the error returned
SaveHistory(hm, fs, mb, en, written) ==
    IF ~en THEN [hm |-> hm, files |-> fs, err |-> "nil"]
    ELSE LET rot == rotateIfNeeded(hm, fs, mb)
         IN  IF written < 0
             THEN [hm |-> rot.hm, files |-> rot.files, err |-> "error"]
             ELSE [hm |-> rot.hm,
                   files |-> [rot.files EXCEPT
                                 ![0] = WriteEntries(SubSeq(rot.hm, 1,
                                                            Min(written, Len(rot.hm))))],
                   err |-> IF written < Len(rot.hm) THEN "error" ELSE "nil"]

----------------------------------------------------------------------------
(* Fuzzy scoring and history search. *)

\* the subsequence scan of calculateFuzzyScore: i is the next input rune
\* (0-based), candidateIdx the scan position, score the score so far
RECURSIVE FuzzyScan(_, _, _, _, _)
FuzzyScan(input, candidate, i, candidateIdx, score) ==
    IF i >= Len(input) THEN score
    ELSE LET hits == {k \in candidateIdx..(Len(candidate) - 1) :
                         candidate[k + 1] = input[i + 1]}
         IN  IF hits = {}
             THEN score   \* the scan ran off the candidate: break
             ELSE LET k == CHOOSE k \in hits : \A j \in hits : k <= j
                  IN  IF k + 1 >= Len(candidate)
                      THEN score + 10
                      ELSE FuzzyScan(input, candidate, i + 1, k + 1, score + 10)

calculateFuzzyScore(input, candidate, ignoreCase) ==
    LET searchInput == IF ignoreCase THEN ToLower(input) ELSE input
        searchCandidate == IF ignoreCase THEN ToLower(candidate) ELSE candidate
    IN  IF input = <<>> THEN 1
        ELSE IF candidate = <<>> THEN 0
        ELSE IF searchInput = searchCandidate THEN 1000
        ELSE IF HasPrefix(searchCandidate, searchInput) THEN 800 + Len(searchInput) * 10
        ELSE IF Contains(searchCandidate, searchInput) THEN 500 + Len(searchInput) * 5
        ELSE FuzzyScan(searchInput, searchCandidate, 0, 0, 0)

\* matches with a positive score, in candidate order
RECURSIVE CollectMatches(_, _, _)
CollectMatches(queryLower, candidates, i) ==
    IF i > Len(candidates) THEN <<>>
    ELSE LET score == calculateFuzzyScore(queryLower, ToLower(candidates[i]), FALSE)
             rest == CollectMatches(queryLower, candidates, i + 1)
         IN  IF score > 0 THEN <<[text |-> candidates[i], score |-> score]>> \o rest
             ELSE rest

Swap(m, i, j) == [m EXCEPT ![i] = m[j], ![j] = m[i]]

\* the inner loop of the sort: for j := i+1; j < len; j++ (1-based here)
RECURSIVE SortInner(_, _, _)
SortInner(m, i, j) ==
    IF j > Len(m) THEN m
    ELSE SortInner(IF m[i].score < m[j].score THEN Swap(m, i, j) ELSE m, i, j + 1)

\* the outer loop: for i := range len-1
RECURSIVE SortOuter(_, _)
SortOuter(m, i) ==
    IF i > Len(m) - 1 THEN m ELSE SortOuter(SortInner(m, i, i + 1), i + 1)

\* the matches left as they were collected
SortByScoreUnsorted(m) == m

SortByScore(m) == SortOuter(m, 1)

\* fuzzyCompleter.Complete on the text before the cursor
Complete(candidates, input) ==
    IF input = <<>> THEN candidates
    ELSE LET sorted == SortByScore(CollectMatches(ToLower(input), candidates, 1))
         IN  [i \in 1..Len(sorted) |-> sorted[i].text]

\* historySearcher.Search
Search(hist, query) ==
    IF query = <<>> THEN hist
    ELSE LET sorted == SortByScore(CollectMatches(ToLower(query), hist, 1))
         IN  [i \in 1..Len(sorted) |-> sorted[i].text]

----------------------------------------------------------------------------
(* The cases of the switch in RunWithContext that do not return.  A loop   *)
(* state ls holds the buffer, the cursor and the loop's locals; each case  *)
(* returns the loop state it leaves.                                       *)

\* maxDisplayed: the rows of the suggestion window
MaxDisplayed == 10

LoopState(b, c, sg, sel, off, hi) ==
    [buffer |-> b, cursor |-> c, suggestions |-> sg, selectedSuggestion |-> sel,
     suggestionOffset |-> off, historyIndex |-> hi]

WithEdit(ls, e) == [ls EXCEPT !.buffer = e.buffer, !.cursor = e.cursor]

ClearSuggestions(ls) == [ls EXCEPT !.suggestions = <<>>]

\* p.acceptSuggestion(suggestions[selectedSuggestion]); suggestions = nil
AcceptSelected(ls) ==
    ClearSuggestions(WithEdit(ls,
        acceptSuggestion(ls.buffer, ls.cursor, ls.suggestions[ls.selectedSuggestion + 1])))

\* an ActionSubmit that returns whether or not suggestions are showing
SubmitReturnsWhateverShows(ls) == ~isShiftEnter(ls.buffer)

\* ActionSubmit returns from RunWithContext
SubmitReturns(ls) == Len(ls.suggestions) = 0 /\ ~isShiftEnter(ls.buffer)

\* ActionSubmit when it does not return
ActionSubmit(ls) ==
    IF Len(ls.suggestions) > 0 THEN AcceptSelected(ls)
    ELSE ClearSuggestions(WithEdit(ls, insertRune(ls.buffer, ls.cursor, NL)))

ActionMoveLeft(ls) ==
    IF ls.cursor > 0 THEN [ls EXCEPT !.cursor = @ - 1] ELSE ls

ActionMoveRight(ls) ==
    IF Len(ls.suggestions) > 0 THEN AcceptSelected(ls)
    ELSE IF ls.cursor < Len(ls.buffer) THEN [ls EXCEPT !.cursor = @ + 1]
    ELSE ls

\* a MoveUp that steps the selection and leaves the window where it is
ActionMoveUpNoScroll(ls, hist) ==
    IF Len(ls.suggestions) > 0 /\ ls.selectedSuggestion > 0
    THEN [ls EXCEPT !.selectedSuggestion = @ - 1]
    ELSE ls

ActionMoveUp(ls, hist) ==
    IF Len(ls.suggestions) > 0
    THEN IF ls.selectedSuggestion > 0
         THEN [ls EXCEPT !.selectedSuggestion = @ - 1,
                         !.suggestionOffset =
                             IF ls.selectedSuggestion - 1 < @
                             THEN ls.selectedSuggestion - 1 ELSE @]
         ELSE ls
    ELSE IF isMultiLine(ls.buffer)
    THEN [ls EXCEPT !.cursor = findCursorUp(ls.buffer, ls.cursor)]
    ELSE IF ls.historyIndex > 0
    THEN [ClearSuggestions(WithEdit(ls, setBuffer(hist[ls.historyIndex])))
             EXCEPT !.historyIndex = @ - 1]
    ELSE ls

\* a MoveDown that steps the selection without looking at the list's length
ActionMoveDownUnguarded(ls, hist) ==
    IF Len(ls.suggestions) > 0
    THEN [ls EXCEPT !.selectedSuggestion = @ + 1]
    ELSE ls

ActionMoveDown(ls, hist) ==
    IF Len(ls.suggestions) > 0
    THEN IF ls.selectedSuggestion < Len(ls.suggestions) - 1
         THEN [ls EXCEPT !.selectedSuggestion = @ + 1,
                         !.suggestionOffset =
                             IF ls.selectedSuggestion + 1 >= @ + MaxDisplayed
                             THEN ls.selectedSuggestion + 1 - MaxDisplayed + 1 ELSE @]
         ELSE ls
    ELSE IF isMultiLine(ls.buffer)
    THEN [ls EXCEPT !.cursor = findCursorDown(ls.buffer, ls.cursor)]
    ELSE IF ls.historyIndex < Len(hist)
    THEN [ClearSuggestions(WithEdit(ls,
              IF ls.historyIndex + 1 = Len(hist) THEN setBuffer(<<>>)
              ELSE setBuffer(hist[ls.historyIndex + 2])))
             EXCEPT !.historyIndex = @ + 1]
    ELSE ls

ActionMoveHome(ls) ==
    IF isMultiLine(ls.buffer)
    THEN [ls EXCEPT !.cursor = findLineStart(ls.buffer, ls.cursor)]
    ELSE [ls EXCEPT !.cursor = 0]

ActionMoveEnd(ls) ==
    IF isMultiLine(ls.buffer)
    THEN [ls EXCEPT !.cursor = findLineEnd(ls.buffer, ls.cursor)]
    ELSE [ls EXCEPT !.cursor = Len(ls.buffer)]

ActionMoveWordLeft(ls) == [ls EXCEPT !.cursor = findWordBoundary(ls.buffer, ls.cursor, -1)]

ActionMoveWordRight(ls) == [ls EXCEPT !.cursor = findWordBoundary(ls.buffer, ls.cursor, 1)]

\* rn is the rune the loop read: Backspace, or ESC for the Delete key
ActionDeleteChar(ls, rn) ==
    IF rn = DEL \/ rn = BS
    THEN IF ls.cursor > 0
         THEN ClearSuggestions(WithEdit(ls,
                  Edit(Slice(ls.buffer, 0, ls.cursor - 1)
                           \o Slice(ls.buffer, ls.cursor, Len(ls.buffer)),
                       ls.cursor - 1)))
         ELSE ls
    ELSE IF ls.cursor < Len(ls.buffer)
         THEN ClearSuggestions(WithEdit(ls,
                  Edit(Slice(ls.buffer, 0, ls.cursor)
                           \o Slice(ls.buffer, ls.cursor + 1, Len(ls.buffer)),
                       ls.cursor)))
         ELSE ls

\* a DeleteLine that empties the buffer and leaves the cursor where it was
ActionDeleteLineKeepsCursor(ls) == [ls EXCEPT !.buffer = <<>>]

ActionDeleteLine(ls) == WithEdit(ls, Edit(<<>>, 0))

ActionDeleteToEnd(ls) ==
    IF isMultiLine(ls.buffer)
    THEN [ls EXCEPT !.buffer = Slice(ls.buffer, 0, ls.cursor)
                        \o Slice(ls.buffer, findLineEnd(ls.buffer, ls.cursor), Len(ls.buffer))]
    ELSE [ls EXCEPT !.buffer = Slice(ls.buffer, 0, ls.cursor)]

ActionDeleteWordBack(ls) ==
    IF ls.cursor > 0
    THEN LET newPos == findWordBoundary(ls.buffer, ls.cursor, -1)
         IN  ClearSuggestions(WithEdit(ls,
                 Edit(Slice(ls.buffer, 0, newPos)
                          \o Slice(ls.buffer, ls.cursor, Len(ls.buffer)),
                      newPos)))
    ELSE ls

\* the suggestions whose text starts with the string currentWord, in order
FilterByPrefix(sg, currentWord) ==
    SelectSeq(sg, LAMBDA t : HasPrefix(String(t), currentWord))

\* an ActionComplete that shows a single suggestion instead of accepting it
ActionCompleteShowsSingle(ls, out) ==
    IF Len(ls.suggestions) > 0 THEN AcceptSelected(ls)
    ELSE LET currentWord == GetWordBeforeCursor(String(ls.buffer), ls.cursor)
         IN  [ls EXCEPT !.suggestions = IF currentWord # <<>>
                                        THEN FilterByPrefix(out, currentWord) ELSE out,
                        !.selectedSuggestion = 0, !.suggestionOffset = 0]

\* ActionComplete with a completer configured; out is what the completer
\* returns for the document
ActionComplete(ls, out) ==
    IF Len(ls.suggestions) > 0 THEN AcceptSelected(ls)
    ELSE LET currentWord == GetWordBeforeCursor(String(ls.buffer), ls.cursor)
             shown == IF currentWord # <<>> THEN FilterByPrefix(out, currentWord) ELSE out
             fresh == [ls EXCEPT !.suggestions = shown, !.selectedSuggestion = 0,
                                 !.suggestionOffset = 0]
         IN  IF Len(shown) = 1 THEN AcceptSelected(fresh) ELSE fresh

ActionNewLine(ls) ==
    ClearSuggestions(WithEdit(ls, insertRune(ls.buffer, ls.cursor, NL)))

\* the default case: a rune bound to nothing the switch handles
ActionDefault(ls, rn, hist) ==
    IF IsPrintable(rn)
    THEN [ClearSuggestions(WithEdit(ls, insertRune(ls.buffer, ls.cursor, rn)))
             EXCEPT !.historyIndex = Len(hist)]
    ELSE ls

\* Ctrl+D on an empty buffer, in the default case, returns io.EOF
DefaultReturns(ls, rn) == ~IsPrintable(rn) /\ rn = CtrlD /\ Len(ls.buffer) = 0

Switch(ls, act, rn, out, hist, hasCompleter) ==
    CASE act = "Submit" -> ActionSubmit(ls)
      [] act = "MoveLeft" -> ActionMoveLeft(ls)
      [] act = "MoveRight" -> ActionMoveRight(ls)
      [] act = "MoveUp" -> ActionMoveUp(ls, hist)
      [] act = "MoveDown" -> ActionMoveDown(ls, hist)
      [] act = "MoveHome" -> ActionMoveHome(ls)
      [] act = "MoveEnd" -> ActionMoveEnd(ls)
      [] act = "MoveWordLeft" -> ActionMoveWordLeft(ls)
      [] act = "MoveWordRight" -> ActionMoveWordRight(ls)
      [] act = "DeleteChar" -> ActionDeleteChar(ls, rn)
      [] act = "DeleteLine" -> ActionDeleteLine(ls)
      [] act = "DeleteToEnd" -> ActionDeleteToEnd(ls)
      [] act = "DeleteWordBack" -> ActionDeleteWordBack(ls)
      [] act = "Complete" -> IF hasCompleter THEN ActionComplete(ls, out) ELSE ls
      [] act = "NewLine" -> ActionNewLine(ls)
      [] OTHER -> ActionDefault(ls, rn, hist)

----------------------------------------------------------------------------
(* The renderer.  What it writes is a sequence of tokens <<code, n>>: a     *)
(* control code with its count, or a text with its width in columns.       *)
(*   cr  \r         lf  \n          el  ESC[K      el2 ESC[2K              *)
(*   ed  ESC[0J     cuu ESC[nA      cud ESC[nB     cuf ESC[nC              *)
(*   cub ESC[nD     hide ESC[?25l   show ESC[?25h                          *)
(* text is a prefix, an indentation or a line of the input; item and       *)
(* selected are a row of the suggestion list, n the index of the           *)
(* suggestion in the list.  The colour codes are left out, they take no    *)
(* column, and the suggestions have no description.  The input is the      *)
(* string of the buffer, taken as its runes.                               *)

\* the renderer before its first call
newRenderer ==
    /\ lastLines = 0
    /\ suggestionsActive = FALSE
    /\ output = <<>>
    /\ call = [prefixLen |-> 0, input |-> <<>>, cursor |-> 0, n |-> 0,
               selected |-> 0, offset |-> 0, err |-> "none"]

maxSuggestions == 10

\* a loop that writes the same tokens n times
RECURSIVE Times(_, _)
Times(tokens, n) == IF n <= 0 THEN <<>> ELSE tokens \o Times(tokens, n - 1)

\* the mutant of clearPreviousLines: the rows below are one too few
clearPreviousLinesShort(ll) ==
    IF ll <= 1
    THEN <<<<"cr", 0>>, <<"el", 0>>>>
    ELSE <<<<"cr", 0>>, <<"el", 0>>>>
         \o Times(<<<<"cud", 1>>, <<"el2", 0>>>>, ll - 2)
         \o <<<<"cuu", ll - 1>>, <<"cr", 0>>>>

clearPreviousLines(ll) ==
    IF ll <= 1
    THEN <<<<"cr", 0>>, <<"el", 0>>>>
    ELSE <<<<"cr", 0>>, <<"el", 0>>>>
         \o Times(<<<<"cud", 1>>, <<"el2", 0>>>>, ll - 1)
         \o <<<<"cuu", ll - 1>>, <<"cr", 0>>>>

clearAllSuggestionContent(ll) ==
    <<<<"cr", 0>>, <<"ed", 0>>>>
    \o IF ll > 1
       THEN <<<<"el2", 0>>>>
            \o Times(<<<<"cr", 0>>, <<"lf", 0>>, <<"el2", 0>>>>, ll - 1)
            \o <<<<"cuu", ll - 1>>, <<"cr", 0>>>>
       ELSE <<<<"el2", 0>>>>

\* strings.Split(input, "\n")
RECURSIVE Split(_)
Split(input) ==
    IF ~ContainsRune(input, NL)
    THEN <<input>>
    ELSE LET i == CHOOSE k \in 1..Len(input) :
                      input[k] = NL /\ \A j \in 1..(k - 1) : input[j] # NL
         IN  <<SubSeq(input, 1, i - 1)>> \o Split(SubSeq(input, i + 1, Len(input)))

splitIntoLines(input) == IF input = <<>> THEN <<<<>>>> ELSE Split(input)

\* <<line, col>> of the cursor, both from 0
findCursorPosition(inputRunes, c) ==
    LET upto == IF c >= Len(inputRunes) THEN Len(inputRunes) ELSE c
        breaks == {i \in 1..upto : inputRunes[i] = NL}
        last == IF breaks = {} THEN 0 ELSE CHOOSE i \in breaks : \A j \in breaks : j <= i
    IN  IF c <= 0 THEN <<0, 0>> ELSE <<Cardinality(breaks), upto - last>>

positionCursor(lines, cursorLine, cursorCol, prefixLen) ==
    IF Len(lines) <= 1
    THEN IF cursorCol < Len(lines[1])
         THEN <<<<"cub", Len(lines[1]) - cursorCol>>>>
         ELSE <<>>
    ELSE (IF Len(lines) - 1 - cursorLine > 0
          THEN <<<<"cuu", Len(lines) - 1 - cursorLine>>>>
          ELSE <<>>)
         \o <<<<"cr", 0>>>>
         \o (IF cursorCol + prefixLen > 0
             THEN <<<<"cuf", cursorCol + prefixLen>>>>
             ELSE <<>>)

renderMainLineWithoutCursor(prefixLen, input) ==
    LET lines == splitIntoLines(input)
        RECURSIVE Draw(_)
        Draw(i) ==
            IF i > Len(lines)
            THEN <<>>
            ELSE (IF i > 1 THEN <<<<"el", 0>>>> ELSE <<>>)
                 \o <<<<"text", prefixLen>>, <<"text", Len(lines[i])>>>>
                 \o (IF i < Len(lines) THEN <<<<"lf", 0>>>> ELSE <<>>)
                 \o Draw(i + 1)
    IN  <<<<"cr", 0>>, <<"el", 0>>>> \o Draw(1)

renderMainLine(prefixLen, input, c) ==
    LET pos == findCursorPosition(input, c)
    IN  renderMainLineWithoutCursor(prefixLen, input)
        \o positionCursor(splitIntoLines(input), pos[1], pos[2], prefixLen)

\* the mutant of renderSuggestionsWithOffset: every suggestion from the
\* offset on is drawn
renderSuggestionsWithOffsetAll(n, selected, offset) ==
    LET off == Max(0, Min(offset, n))
        RECURSIVE Rows(_)
        Rows(i) ==
            IF i >= n
            THEN <<>>
            ELSE <<<<"cr", 0>>, <<"el", 0>>,
                   <<(IF i = selected THEN "selected" ELSE "item"), i>>>>
                 \o (IF i < n - 1 THEN <<<<"cr", 0>>, <<"lf", 0>>>> ELSE <<>>)
                 \o Rows(i + 1)
    IN  <<<<"cr", 0>>, <<"lf", 0>>>> \o Rows(off)

\* the list has n suggestions; suggestion i is suggestions[i], from 0
renderSuggestionsWithOffset(n, selected, offset) ==
    LET scrolls == n > maxSuggestions
        off == IF ~scrolls THEN offset
               ELSE IF offset < 0 THEN 0
               ELSE IF offset > n - maxSuggestions THEN n - maxSuggestions
               ELSE offset
        first == IF scrolls THEN off ELSE 0
        count == IF scrolls THEN Min(off + maxSuggestions, n) - off ELSE n
        visibleSelected ==
            IF selected < off \/ selected >= off + count THEN -1 ELSE selected - off
        RECURSIVE Rows(_)
        Rows(i) ==
            IF i >= count
            THEN <<>>
            ELSE <<<<"cr", 0>>, <<"el", 0>>,
                   <<(IF i = visibleSelected THEN "selected" ELSE "item"), first + i>>>>
                 \o (IF i < count - 1 THEN <<<<"cr", 0>>, <<"lf", 0>>>> ELSE <<>>)
                 \o Rows(i + 1)
    IN  <<<<"cr", 0>>, <<"lf", 0>>>> \o Rows(0)

\* the renderer after a call, and what the call wrote and returned.  fails:
\* the writer fails at the first write whose error is looked at
renderWithSuggestionsOffset(ll, active, prefixLen, input, c, n, selected, offset, fails) ==
    LET hadSuggestions == active
        hasSuggestions == n > 0
        cleared == clearPreviousLines(ll)
        main == IF n > 0
                THEN IF ~active THEN renderMainLineWithoutCursor(prefixLen, input) ELSE <<>>
                ELSE renderMainLine(prefixLen, input, c)
        inputLines == Len(splitIntoLines(input))
        list == IF n > 0 THEN renderSuggestionsWithOffset(n, selected, offset) ELSE <<>>
        visibleCount == Min(n, 10)
        shown == inputLines + visibleCount
        rest == IF hasSuggestions
                THEN <<>>
                ELSE (IF hadSuggestions THEN clearAllSuggestionContent(shown) ELSE <<>>)
                     \o <<<<"show", 0>>>>
                     \o renderMainLine(prefixLen, input, c)
    IN  IF fails
        THEN [lastLines |-> ll, suggestionsActive |-> active, output |-> cleared,
              err |-> "error"]
        ELSE [lastLines |-> IF hasSuggestions THEN shown ELSE Len(splitIntoLines(input)),
              suggestionsActive |-> hasSuggestions,
              output |-> cleared \o <<<<"hide", 0>>>> \o main \o list \o rest,
              err |-> "nil"]

----------------------------------------------------------------------------
(* The environment of a session: key presses and the completer.            *)

\* input that keeps the decoder reading to its limit, and one rune more:
\* ESC, then [ and digits
LongSequence == <<ESC, "[", "1", "5", "5", "5", "5", "5", "5", "5", "5", "a">>

\* the key presses the terminal delivers to the main loop, each the runes
\* the terminal driver hands over for it
Keys ==
    {<<"a">>, <<" ">>, <<CR>>, <<CtrlC>>, <<CtrlD>>, <<TAB>>, <<DEL>>,
     <<CtrlA>>, <<CtrlE>>, <<CtrlK>>, <<CtrlU>>, <<CtrlW>>, <<CtrlR>>,
     <<CtrlL>>, <<CtrlB>>, <<CtrlF>>, <<ESC>>,
     <<ESC, "[", "A">>, <<ESC, "[", "B">>, <<ESC, "[", "C">>, <<ESC, "[", "D">>,
     <<ESC, "[", "3", "~">>}

\* the key presses of a user of the keys that send escape sequences: the
\* arrows, Home, End, Delete, Ctrl+Left, Ctrl+Right, Insert and Ctrl+Up
\* (both bound to nothing), and input that is no key's sequence
SequenceKeys ==
    {<<"a">>, <<CR>>, <<CtrlR>>, <<ESC>>,
     <<ESC, "[", "A">>, <<ESC, "[", "B">>, <<ESC, "[", "C">>, <<ESC, "[", "D">>,
     <<ESC, "[", "H">>, <<ESC, "[", "F">>, <<ESC, "[", "3", "~">>,
     <<ESC, "[", "1", ";", "5", "D">>, <<ESC, "[", "1", ";", "5", "C">>,
     <<ESC, "[", "2", "~">>, <<ESC, "[", "1", ";", "5", "A">>, LongSequence}

\* the key presses of a user of Config.Multiline, which no code of the
\* session reads: text, the backslash, Enter, and the key the host binds to
\* ActionNewLine
MultilineKeys == {<<"a">>, <<"\\">>, <<CR>>, <<CtrlL>>}

\* the key presses of a user who wants the line submitted: text, the
\* arrows through the history, Backspace, and Enter
SubmitKeys == {<<"a">>, <<ESC, "[", "A">>, <<ESC, "[", "B">>, <<DEL>>, <<CR>>}

\* the key presses of the user of a keyboard
KeysOf(kb) ==
    IF kb = "sequences" THEN SequenceKeys
    ELSE IF kb = "multiline" THEN MultilineKeys
    ELSE IF kb = "submit" THEN SubmitKeys
    ELSE Keys

\* what arrives next when the decoder waits after a lone ESC
EscKeys == {<<"[", "A">>}

\* the key presses delivered while history search is open
SearchKeys == {<<"a">>, <<CR>>, <<CtrlC>>, <<ESC>>, <<TAB>>, <<DEL>>}

\* the completer the host configures, from the document's text and cursor
\* position to the texts of its suggestions, each given by its runes: a
\* long list for an empty line, two candidates after a blank, and
\* completions of the word before the cursor otherwise, of which some, one
\* or none begin with the word
LongList == [i \in 1..(MaxDisplayed + 1) |-> IF i % 2 = 1 THEN <<"a", "a">> ELSE <<"a">>]

Completer(text, pos) ==
    IF text = <<>> THEN LongList
    ELSE IF GetWordBeforeCursor(text, pos) = <<>> THEN <<<<"a">>, <<" ", "a">>>>
    ELSE IF GetWordBeforeCursor(text, pos) = <<"a">>
    THEN <<<<"a", "a">>, <<" ">>, <<"a", " ", "a">>>>
    ELSE IF GetWordBeforeCursor(text, pos) = <<"a", "a">>
    THEN <<<<"a", "a", "a">>, <<"a">>>>
    ELSE <<<<"a", "a">>, <<"a">>>>

\* the histories a session starts with
InitHistories == {<<>>, <<<<"a", NL>>, <<"a">>>>}

\* the reads the terminal can answer now: <<rune, runes left of the key>>
Reads(keys) ==
    IF pending # <<>> THEN {<<Head(pending), Tail(pending)>>}
    ELSE {<<Head(k), Tail(k)>> : k \in keys}

----------------------------------------------------------------------------
(* The session: RunWithContext.  A step runs from one blocking read of the *)
(* terminal to the next, or to the return.                                 *)

Init ==
    /\ pc = "idle"
    /\ buffer = <<>>
    /\ cursor = 0
    /\ suggestions = <<>>
    /\ selectedSuggestion = 0
    /\ suggestionOffset = 0
    /\ historyIndex = 0
    /\ history \in InitHistories
    /\ hmHistory = history
    /\ enabled = TRUE
    /\ files = NoFiles
    /\ saveErr = "none"
    /\ \/ keyboard = "editing" /\ completerSet \in BOOLEAN
       \/ keyboard \in {"sequences", "multiline"} /\ completerSet = FALSE
    /\ maxBackups = MaxBackups
    /\ r = "none"
    /\ seq = <<>>
    /\ action = "None"
    /\ pending = <<>>
    /\ searchBuffer = <<>>
    /\ searchResults = <<>>
    /\ selectedIndex = 0
    /\ rawMode = FALSE
    /\ restoreCalls = 0
    /\ restored = FALSE
    /\ ctxDone = FALSE
    /\ outcome = "none"
    /\ result = <<>>
    /\ newRenderer

\* the locals of RunWithContext and of the functions it calls are gone
\* when it returns
DropLocals ==
    /\ suggestions' = <<>>
    /\ selectedSuggestion' = 0
    /\ suggestionOffset' = 0
    /\ historyIndex' = 0
    /\ searchBuffer' = <<>>
    /\ searchResults' = <<>>
    /\ selectedIndex' = 0

\* the rune read and the action resolved in the iteration that ends here
Last(rn, act) ==
    /\ r' = rn
    /\ action' = act

\* the deferred function of RunWithContext, entered with calls restores made
\* so far and the flag restored: it restores the terminal unless the flag
\* says that was done
Deferred(calls, flag) ==
    /\ restored' = flag
    /\ restoreCalls' = IF flag THEN calls ELSE calls + 1
    /\ rawMode' = FALSE

\* RunWithContext returns out and res through its deferred function
Return(out, res) ==
    /\ pc' = "done"
    /\ outcome' = out
    /\ result' = res
    /\ Deferred(restoreCalls, restored)
    /\ DropLocals

\* an ActionCancel that restores the terminal and forgets to set the flag
ActionCancelForgetsFlag ==
    /\ pc' = "done"
    /\ outcome' = "ErrInterrupted"
    /\ result' = <<>>
    /\ Deferred(restoreCalls + 1, FALSE)
    /\ DropLocals

\* an ActionCancel that hands back the text typed so far
ActionCancelReturnsText ==
    /\ pc' = "done"
    /\ outcome' = "ErrInterrupted"
    /\ result' = buffer
    /\ Deferred(restoreCalls + 1, TRUE)
    /\ DropLocals

\* case ActionCancel: restore, mark as restored, return ErrInterrupted
ActionCancel ==
    /\ pc' = "done"
    /\ outcome' = "ErrInterrupted"
    /\ result' = <<>>
    /\ Deferred(restoreCalls + 1, TRUE)
    /\ DropLocals

\* the render after the switch, then the top of the loop: a failed write
\* or a cancelled context ends the session, and otherwise the loop blocks
\* in its next read with the loop state ls, having read rn and resolved act
RenderAndLoop(ls, rn, act) ==
    /\ buffer' = ls.buffer
    /\ cursor' = ls.cursor
    /\ Last(rn, act)
    /\ \E renderOk \in BOOLEAN :
        IF ~renderOk THEN Return("render failed", <<>>)
        ELSE IF ctxDone THEN Return("ctx.Err", <<>>)
        ELSE /\ pc' = "main"
             /\ suggestions' = ls.suggestions
             /\ selectedSuggestion' = ls.selectedSuggestion
             /\ suggestionOffset' = ls.suggestionOffset
             /\ historyIndex' = ls.historyIndex
             /\ searchBuffer' = <<>>
             /\ searchResults' = <<>>
             /\ selectedIndex' = 0
             /\ UNCHANGED <<termVars, endVars>>

Cur == LoopState(buffer, cursor, suggestions, selectedSuggestion, suggestionOffset,
                 historyIndex)

\* the entry of RunWithContext, up to the first blocking read
Run ==
    /\ pc = "idle"
    /\ UNCHANGED <<histVars, cfgVars, rendVars, keyVars, pending, searchVars, ctxDone, suggVars>>
    /\ \E rawOk \in BOOLEAN :
        IF ~rawOk
        THEN /\ pc' = "done"
             /\ outcome' = "raw mode failed"
             /\ UNCHANGED <<editVars, historyIndex, termVars, result>>
        ELSE /\ buffer' = <<>>
             /\ cursor' = 0
             /\ \E renderOk \in BOOLEAN :
                 IF ~renderOk \/ ctxDone
                 THEN /\ pc' = "done"
                      /\ outcome' = IF ~renderOk THEN "render failed" ELSE "ctx.Err"
                      /\ result' = <<>>
                      /\ Deferred(restoreCalls, FALSE)
                      /\ historyIndex' = 0
                 ELSE /\ pc' = "main"
                      /\ rawMode' = TRUE
                      /\ historyIndex' = Len(history)
                      /\ UNCHANGED <<restoreCalls, restored, endVars>>

\* the host cancels the context
CtxCancel ==
    /\ pc \in {"idle", "main", "esc", "search"}
    /\ ~ctxDone
    /\ ctxDone' = TRUE
    /\ UNCHANGED <<pc, editVars, suggVars, historyIndex, histVars, cfgVars, rendVars, keyVars,
                   pending, searchVars, termVars, endVars>>

\* a submit that returns the line and leaves the history alone
SubmitReturnSkipsHistory ==
    /\ UNCHANGED histVars
    /\ Return("nil", buffer)

\* case ActionSubmit when it returns: the line goes to the history
SubmitReturn ==
    LET text == buffer
        h == SubmitHistory(history, hmHistory, text, enabled)
    IN  /\ history' = h.history
        /\ hmHistory' = h.hm
        /\ UNCHANGED <<enabled, files, saveErr>>
        /\ Return("nil", text)

\* case ActionHistorySearch: searchHistory up to its first read
SearchEnter(rn, act) ==
    /\ pc' = "search"
    /\ Last(rn, act)
    /\ searchBuffer' = <<>>
    /\ searchResults' = Search(history, <<>>)
    /\ selectedIndex' = 0

\* the switch on the resolved action, and what follows it
Execute(act, rn) ==
    IF act = "Submit" /\ SubmitReturns(Cur)
    THEN SubmitReturn /\ Last(rn, act) /\ UNCHANGED editVars
    ELSE IF act = "Cancel"
    THEN ActionCancel /\ Last(rn, act) /\ UNCHANGED <<editVars, histVars>>
    ELSE IF act = "HistorySearch"
    THEN SearchEnter(rn, act)
         /\ UNCHANGED <<editVars, suggVars, historyIndex, histVars, termVars, endVars>>
    ELSE IF DefaultReturns(Cur, rn) /\ act \in {"None", "HistoryUp", "HistoryDown"}
    THEN Return("io.EOF", <<>>) /\ Last(rn, act) /\ UNCHANGED <<editVars, histVars>>
    ELSE LET ls == Switch(Cur, act, rn, Completer(String(buffer), cursor), history, completerSet)
         IN  /\ Len(ls.buffer) <= MaxBuf
             /\ RenderAndLoop(ls, rn, act)
             /\ UNCHANGED histVars

\* the bound of the read loop in readEscapeSequence
EscapeLimit == 10

\* readEscapeSequence: the sequence s is complete
EscComplete(s) ==
    \/ s \in {<<"[", "A">>, <<"[", "B">>, <<"[", "C">>, <<"[", "D">>, <<"[", "H">>,
              <<"[", "F">>}
    \/ (HasSuffix(s, <<"~">>) /\ Len(s) >= 3)
    \/ (Len(s) >= 3 /\ s[Len(s)] \notin DigitRunes)

\* a readEscapeSequence that reads on until a sequence is complete
RECURSIVE readEscapeSequenceUnbounded(_, _)
readEscapeSequenceUnbounded(s, pend) ==
    IF EscComplete(s)
    THEN [seq |-> s, pending |-> pend, complete |-> TRUE]
    ELSE IF pend = <<>>
    THEN [seq |-> s, pending |-> pend, complete |-> FALSE]
    ELSE readEscapeSequenceUnbounded(Append(s, Head(pend)), Tail(pend))

\* readEscapeSequence as far as the runes at hand go: it returns the
\* sequence when it is complete, and waits for the terminal otherwise
RECURSIVE readEscapeSequence(_, _)
readEscapeSequence(s, pend) ==
    IF EscComplete(s) \/ Len(s) >= EscapeLimit
    THEN [seq |-> s, pending |-> pend, complete |-> TRUE]
    ELSE IF pend = <<>>
    THEN [seq |-> s, pending |-> pend, complete |-> FALSE]
    ELSE readEscapeSequence(Append(s, Head(pend)), Tail(pend))

\* the runes of an escape sequence so far are d: resolve it, or wait
EscapeStep(d) ==
    /\ pending' = d.pending
    /\ seq' = d.seq
    /\ IF d.complete
       THEN Execute(GetSequenceAction(d.seq), ESC)
       ELSE /\ pc' = "esc"
            /\ r' = ESC
            /\ action' = "None"
            /\ UNCHANGED <<editVars, suggVars, historyIndex, histVars, searchVars,
                           termVars, endVars>>

\* the main loop reads a rune
MainKey ==
    /\ pc = "main"
    /\ UNCHANGED <<cfgVars, rendVars, ctxDone>>
    /\ \E rd \in Reads(KeysOf(keyboard)) :
        IF rd[1] = ESC
        THEN EscapeStep(readEscapeSequence(<<>>, rd[2]))
        ELSE /\ pending' = rd[2]
             /\ seq' = <<>>
             /\ Execute(GetAction(rd[1]), rd[1])

\* a main loop that takes end of input for a key press bound to nothing
\* while the buffer holds text
MainReadFailIgnoresEOF ==
    /\ pc = "main"
    /\ pending = <<>>
    /\ UNCHANGED <<editVars, histVars, cfgVars, rendVars, pending, ctxDone>>
    /\ seq' = <<>>
    /\ \E err \in {"io.EOF", "error"} :
        /\ Last(err, "None")
        /\ IF err = "error" THEN Return("read failed", <<>>)
           ELSE IF buffer = <<>> THEN Return("ErrEOF", <<>>)
           ELSE /\ pc' = "main"
                /\ UNCHANGED <<suggVars, historyIndex, searchVars, termVars, endVars>>

\* the main loop's read fails: end of input, or another error, which r
\* holds in place of a rune
MainReadFail ==
    /\ pc = "main"
    /\ pending = <<>>
    /\ UNCHANGED <<editVars, histVars, cfgVars, rendVars, pending, ctxDone>>
    /\ seq' = <<>>
    /\ \E err \in {"io.EOF", "error"} :
        /\ Last(err, "None")
        /\ IF err = "io.EOF" THEN Return("ErrEOF", <<>>) ELSE Return("read failed", <<>>)

\* readEscapeSequence, waiting, reads the runes of the next key press
EscKey ==
    /\ pc = "esc"
    /\ pending = <<>>
    /\ UNCHANGED <<cfgVars, rendVars, ctxDone>>
    /\ \E k \in EscKeys : EscapeStep(readEscapeSequence(seq, k))

\* readEscapeSequence's read fails: the loop continues at its top, with no
\* render, and blocks in the next read
EscReadFail ==
    /\ pc = "esc"
    /\ pending = <<>>
    /\ UNCHANGED <<editVars, histVars, cfgVars, rendVars, pending, ctxDone>>
    /\ Last(r, action)
    /\ seq' = <<>>
    /\ IF ctxDone THEN Return("ctx.Err", <<>>)
       ELSE /\ pc' = "main"
            /\ UNCHANGED <<suggVars, historyIndex, searchVars, termVars, endVars>>

\* a case ActionHistorySearch that adopts whatever searchHistory returned,
\* the empty string too
SearchLeaveAdoptsEmpty(res) ==
    LET e == setBuffer(res)
    IN  /\ RenderAndLoop(LoopState(e.buffer, e.cursor, suggestions, selectedSuggestion,
                                   suggestionOffset, Len(history)), r, action)
        /\ UNCHANGED seq

\* searchHistory has returned res: the rest of case ActionHistorySearch
SearchLeave(res) ==
    LET e == IF res # <<>> THEN setBuffer(res) ELSE Edit(buffer, cursor)
        hi == IF res # <<>> THEN Len(history) ELSE historyIndex
    IN  /\ RenderAndLoop(LoopState(e.buffer, e.cursor, suggestions, selectedSuggestion,
                                   suggestionOffset, hi), r, action)
        /\ UNCHANGED seq

\* searchHistory has read the rune rd[1], which leaves rd[2] of its key press
SearchRead(rd) ==
    LET rn == rd[1]
    IN  /\ pending' = rd[2]
        /\ IF rn \in {CR, NL}
           THEN SearchLeave(IF selectedIndex < Len(searchResults)
                            THEN searchResults[selectedIndex + 1]
                            ELSE searchBuffer)
           ELSE IF rn \in {CtrlC, ESC}
           THEN SearchLeave(<<>>)
           ELSE /\ pc' = "search"
                /\ UNCHANGED <<editVars, suggVars, historyIndex, keyVars, termVars,
                               endVars>>
                /\ IF rn \in {DEL, BS}
                   THEN IF Len(searchBuffer) > 0
                        THEN LET q == Slice(searchBuffer, 0, Len(searchBuffer) - 1)
                             IN  /\ searchBuffer' = q
                                 /\ searchResults' = Search(history, q)
                                 /\ selectedIndex' = 0
                        ELSE UNCHANGED searchVars
                   ELSE IF rn = TAB
                   THEN /\ selectedIndex' =
                              IF Len(searchResults) > 0
                              THEN (selectedIndex + 1) % Len(searchResults)
                              ELSE selectedIndex
                        /\ UNCHANGED <<searchBuffer, searchResults>>
                   ELSE IF IsPrintable(rn)
                   THEN /\ Len(searchBuffer) < MaxQuery
                        /\ searchBuffer' = Append(searchBuffer, rn)
                        /\ searchResults' = Search(history, Append(searchBuffer, rn))
                        /\ selectedIndex' = 0
                   ELSE UNCHANGED searchVars

\* searchHistory reads a rune
SearchKey ==
    /\ pc = "search"
    /\ UNCHANGED <<histVars, cfgVars, rendVars, ctxDone>>
    /\ \E rd \in Reads(SearchKeys) : SearchRead(rd)

\* searchHistory's read fails: it returns the error, which the caller drops
SearchReadFail ==
    /\ pc = "search"
    /\ pending = <<>>
    /\ UNCHANGED <<histVars, cfgVars, rendVars, pending, ctxDone>>
    /\ SearchLeave(<<>>)

Next ==
    \/ Run
    \/ CtxCancel
    \/ MainKey
    \/ MainReadFail
    \/ EscKey
    \/ EscReadFail
    \/ SearchKey
    \/ SearchReadFail

Spec == Init /\ [][Next]_vars

----------------------------------------------------------------------------
(* The history of a prompt between sessions: the host calls the history    *)
(* methods, runs sessions that end in a submitted line, closes the prompt  *)
(* and makes a new one over the same file.                                 *)

\* the commands a host adds and the lines a session submits
HistTexts == {<<>>, <<"a">>, <<"b">>, <<"c">>, <<"a", NL, "a">>}

\* the lists a host hands to SetHistory
SetLists ==
    {<<>>, <<<<"a">>, <<"a">>>>, <<<<"a">>, <<"b">>, <<"c">>>>, <<<<" ", "a">>, <<"b">>>>}

sessionVars == <<editVars, suggVars, historyIndex, cfgVars, keyVars, pending, searchVars,
                 termVars, ctxDone, endVars, rendVars>>

InitHistory ==
    /\ pc = "host"
    /\ buffer = <<>>
    /\ cursor = 0
    /\ suggestions = <<>>
    /\ selectedSuggestion = 0
    /\ suggestionOffset = 0
    /\ historyIndex = 0
    /\ history = <<>>
    /\ hmHistory = <<>>
    /\ enabled \in BOOLEAN
    /\ files = NoFiles
    /\ saveErr = "none"
    /\ completerSet = FALSE
    /\ keyboard = "editing"
    /\ maxBackups = MaxBackups
    /\ r = "none"
    /\ seq = <<>>
    /\ action = "None"
    /\ pending = <<>>
    /\ searchBuffer = <<>>
    /\ searchResults = <<>>
    /\ selectedIndex = 0
    /\ rawMode = FALSE
    /\ restoreCalls = 0
    /\ restored = FALSE
    /\ ctxDone = FALSE
    /\ outcome = "none"
    /\ result = <<>>
    /\ newRenderer

\* the host's call has left the pair h
HostLeaves(h) ==
    /\ history' = h.history
    /\ hmHistory' = h.hm
    /\ UNCHANGED <<pc, enabled, files, saveErr, sessionVars>>

CallAddHistory(command) ==
    /\ pc = "host"
    /\ HostLeaves(AddHistory(history, hmHistory, command, enabled))

CallSetHistory(list) ==
    /\ pc = "host"
    /\ HostLeaves(SetHistory(history, hmHistory, list, enabled))

CallClearHistory ==
    /\ pc = "host"
    /\ HostLeaves(ClearHistory(history, hmHistory, enabled))

\* a session run on the prompt returns the submitted line text
SessionSubmits(text) ==
    /\ pc = "host"
    /\ HostLeaves(SubmitHistory(history, hmHistory, text, enabled))

\* Prompt.Close: the history is saved; a failed write leaves the file
\* short, and the error of the save goes to the standard error stream
CallClose ==
    /\ pc = "host"
    /\ \E written \in {-1, 0, Len(hmHistory)} :
        LET saved == SaveHistory(hmHistory, files, newFromConfigMaxBackups(maxBackups),
                                 enabled, written)
        IN  /\ hmHistory' = saved.hm
            /\ files' = saved.files
            /\ saveErr' = saved.err
    /\ UNCHANGED <<pc, history, enabled, sessionVars>>

\* newFromConfig: a new prompt over the same configuration and file
CallNew ==
    /\ pc = "host"
    /\ LET loaded == LoadHistory(<<>>, files[0], enabled)
       IN  /\ hmHistory' = loaded
           /\ history' = ManagerGetHistory(loaded, enabled)
    /\ UNCHANGED <<pc, enabled, files, saveErr, sessionVars>>

NextHistory ==
    \/ \E command \in HistTexts : CallAddHistory(command)
    \/ \E list \in SetLists : CallSetHistory(list)
    \/ CallClearHistory
    \/ \E text \in HistTexts : SessionSubmits(text)
    \/ CallClose
    \/ CallNew

SpecHistory == InitHistory /\ [][NextHistory]_vars

----------------------------------------------------------------------------
(* The history file of a prompt: the host configures the backups to keep,  *)
(* adds lines, closes the prompt and makes a new one over the same file.   *)

\* the lines the host adds
SaveTexts == {<<"a">>, <<"b">>}

InitSave ==
    /\ pc = "host"
    /\ buffer = <<>>
    /\ cursor = 0
    /\ suggestions = <<>>
    /\ selectedSuggestion = 0
    /\ suggestionOffset = 0
    /\ historyIndex = 0
    /\ history = <<>>
    /\ hmHistory = <<>>
    /\ enabled = TRUE
    /\ files = NoFiles
    /\ saveErr = "none"
    /\ completerSet = FALSE
    /\ keyboard = "editing"
    /\ maxBackups \in 0..MaxBackups
    /\ r = "none"
    /\ seq = <<>>
    /\ action = "None"
    /\ pending = <<>>
    /\ searchBuffer = <<>>
    /\ searchResults = <<>>
    /\ selectedIndex = 0
    /\ rawMode = FALSE
    /\ restoreCalls = 0
    /\ restored = FALSE
    /\ ctxDone = FALSE
    /\ outcome = "none"
    /\ result = <<>>
    /\ newRenderer

NextSave ==
    \/ \E command \in SaveTexts : CallAddHistory(command)
    \/ CallClose
    \/ CallNew

SpecSave == InitSave /\ [][NextSave]_vars

----------------------------------------------------------------------------
(* acceptSuggestion away from a session: a suggestion is showing over a    *)
(* buffer and a cursor of any kind, and is accepted.                       *)

\* the runes of the buffers: a word rune, a blank, a rune that is neither,
\* and a rune of two bytes
AcceptRunes == {"a", " ", "-", EAcute}

AcceptBuffers ==
    UNION {[1..n -> AcceptRunes] : n \in 0..MaxAccept}

\* the texts of the suggestion
AcceptTexts == {<<"a", "b">>, <<"b">>, <<EAcute, "b">>}

InitAccept ==
    /\ pc = "accept"
    /\ buffer \in AcceptBuffers
    /\ cursor \in 0..Len(buffer)
    /\ suggestions \in {<<text>> : text \in AcceptTexts}
    /\ selectedSuggestion = 0
    /\ suggestionOffset = 0
    /\ historyIndex = 0
    /\ history = <<>>
    /\ hmHistory = <<>>
    /\ enabled = TRUE
    /\ files = NoFiles
    /\ saveErr = "none"
    /\ completerSet = TRUE
    /\ keyboard = "editing"
    /\ maxBackups = MaxBackups
    /\ r = "none"
    /\ seq = <<>>
    /\ action = "None"
    /\ pending = <<>>
    /\ searchBuffer = <<>>
    /\ searchResults = <<>>
    /\ selectedIndex = 0
    /\ rawMode = TRUE
    /\ restoreCalls = 0
    /\ restored = FALSE
    /\ ctxDone = FALSE
    /\ outcome = "none"
    /\ result = <<>>
    /\ newRenderer

\* p.acceptSuggestion(suggestions[selectedSuggestion]); suggestions = nil
AcceptStep ==
    /\ pc = "accept"
    /\ pc' = "accepted"
    /\ LET ls == AcceptSelected(Cur)
       IN  /\ buffer' = ls.buffer
           /\ cursor' = ls.cursor
           /\ suggestions' = ls.suggestions
    /\ UNCHANGED <<selectedSuggestion, suggestionOffset, historyIndex, histVars, cfgVars, rendVars,
                   keyVars, pending, searchVars, termVars, ctxDone, endVars>>

NextAccept == AcceptStep

SpecAccept == InitAccept /\ [][NextAccept]_vars

----------------------------------------------------------------------------
(* The renderer away from a session: it is called again and again, with    *)
(* any input, cursor, list, selection and offset.                          *)

\* the inputs drawn: empty, one line, a line break at the end and within
RenderInputs == {<<>>, <<"a", "a", "a">>, <<"a", NL>>, <<"a", NL, "a">>}

\* the widths of the prefix
RenderPrefixes == {2}

\* the lengths of the suggestion list: none, a short one, and one that
\* scrolls
RenderCounts == {0, 2, 12}

\* the offsets passed: below, at, and above the ones a list has
RenderOffsets == {-1, 0, 1, 3}

InitRender ==
    /\ pc = "render"
    /\ buffer = <<>>
    /\ cursor = 0
    /\ suggestions = <<>>
    /\ selectedSuggestion = 0
    /\ suggestionOffset = 0
    /\ historyIndex = 0
    /\ history = <<>>
    /\ hmHistory = <<>>
    /\ enabled = TRUE
    /\ files = NoFiles
    /\ saveErr = "none"
    /\ completerSet = TRUE
    /\ keyboard = "editing"
    /\ maxBackups = MaxBackups
    /\ r = "none"
    /\ seq = <<>>
    /\ action = "None"
    /\ pending = <<>>
    /\ searchBuffer = <<>>
    /\ searchResults = <<>>
    /\ selectedIndex = 0
    /\ rawMode = TRUE
    /\ restoreCalls = 0
    /\ restored = FALSE
    /\ ctxDone = FALSE
    /\ outcome = "none"
    /\ result = <<>>
    /\ newRenderer

\* r.renderWithSuggestionsOffset(prefix, input, cursor, suggestions, selected, offset)
RenderCall(prefixLen, input, c, n, selected, offset, fails) ==
    /\ pc = "render"
    /\ LET rs == renderWithSuggestionsOffset(lastLines, suggestionsActive, prefixLen,
                                             input, c, n, selected, offset, fails)
       IN  /\ lastLines' = rs.lastLines
           /\ suggestionsActive' = rs.suggestionsActive
           /\ output' = rs.output
           /\ call' = [prefixLen |-> prefixLen, input |-> input, cursor |-> c, n |-> n,
                       selected |-> selected, offset |-> offset, err |-> rs.err]
    /\ UNCHANGED <<pc, editVars, suggVars, historyIndex, histVars, cfgVars, keyVars,
                   pending, searchVars, termVars, ctxDone, endVars>>

NextRender ==
    \E prefixLen \in RenderPrefixes, input \in RenderInputs, n \in RenderCounts,
       fails \in BOOLEAN :
        \E c \in {0, Len(input)},
           selected \in (IF n = 0 THEN {0} ELSE {-1, 0, n - 1}),
           offset \in (IF n = 0 THEN {0} ELSE RenderOffsets) :
            RenderCall(prefixLen, input, c, n, selected, offset, fails)

SpecRender == InitRender /\ [][NextRender]_vars

----------------------------------------------------------------------------
(* Properties of a session. *)

\* C1: after every step of a session, whatever the edit, move, history or
\* suggestion actions taken, the cursor lies within the buffer:
\* 0 <= cursor <= len(buffer).
CursorWithinBuffer == 0 <= cursor /\ cursor <= Len(buffer)

\* MoveUp has adopted the two-line entry of the history: the cursor is at
\* the end of the buffer
HistoryEntryAdopted ==
    /\ pc = "main"
    /\ action = "MoveUp"
    /\ buffer = <<"a", NL>>
    /\ cursor = Len(buffer)

\* C2: a session that entered raw mode restores the terminal exactly once,
\* however it ends, and not before it ends.
RestoredExactlyOnce ==
    /\ pc \in {"main", "esc", "search"} => rawMode /\ restoreCalls = 0
    /\ pc = "done" /\ outcome # "raw mode failed" => ~rawMode /\ restoreCalls = 1

\* a session ended by Ctrl+C, where the switch itself restores the terminal
CancelRestored ==
    /\ pc = "done"
    /\ action = "Cancel"
    /\ outcome = "ErrInterrupted"
    /\ restored
    /\ restoreCalls = 1

\* C3: whenever suggestions are showing, the selection is an index of the
\* list and the scroll offset lies between 0 and max(0, len - 10).
SelectionWithinList ==
    Len(suggestions) > 0 =>
        /\ 0 <= selectedSuggestion
        /\ selectedSuggestion < Len(suggestions)
        /\ 0 <= suggestionOffset
        /\ suggestionOffset <= Max(0, Len(suggestions) - MaxDisplayed)

\* MoveDown has reached the last entry of a list longer than the window,
\* which scrolled the window to its last position
ScrolledToLast ==
    /\ pc = "main"
    /\ action = "MoveDown"
    /\ Len(suggestions) > MaxDisplayed
    /\ selectedSuggestion = Len(suggestions) - 1
    /\ suggestionOffset = Len(suggestions) - MaxDisplayed

----------------------------------------------------------------------------
(* Properties of the steps of the main loop.  A step of the main loop that *)
(* read a key leaves the rune in r and the action it resolved in action.   *)

\* the main loop has read a rune and run the switch on act
MainStep(act) == pc = "main" /\ ctxDone' = ctxDone /\ action' = act

\* the loop goes on to its next read, or the write of the render failed, or
\* the context was cancelled: the session has not ended in a result
StaysRunning ==
    \/ pc' = "main" /\ outcome' = "none"
    \/ pc' = "done" /\ outcome' \in {"render failed", "ctx.Err"} /\ result' = <<>>

\* h with entry added at its end, cut from the front to MaxEntries
Appended(h, entry) ==
    LET a == Append(h, entry)
    IN  IF Len(a) > MaxEntries THEN SubSeq(a, Len(a) - MaxEntries + 1, Len(a)) ELSE a

\* C6: Submit with no suggestions showing and no newline in the buffer ends
\* the session with the whole buffer as its result, and the history gains
\* that text exactly when it is non-empty and differs from the last entry.
SubmitEndsSession ==
    [][MainStep("Submit") /\ suggestions = <<>> /\ ~ContainsRune(buffer, NL) =>
          /\ pc' = "done"
          /\ outcome' = "nil"
          /\ result' = buffer
          /\ history' = IF buffer # <<>>
                            /\ (history = <<>> \/ history[Len(history)] # buffer)
                         THEN Appended(history, buffer)
                         ELSE history]_vars

\* a submitted line went to a full history, which dropped its oldest entry
SubmittedAndRecorded ==
    /\ pc = "done"
    /\ action = "Submit"
    /\ outcome = "nil"
    /\ result = <<"a", "a">>
    /\ history = <<<<"a">>, <<"a", "a">>>>

\* the selected suggestion put into the buffer at the cursor
Accepted == acceptSuggestion(buffer, cursor, suggestions[selectedSuggestion + 1])

\* C7: while suggestions are showing, each of Complete, MoveRight and
\* Submit puts the selected suggestion into the buffer and closes the list;
\* the history stays as it is and the session does not end in a result.
AcceptKeepsRunning ==
    [][(\E act \in {"Complete", "MoveRight", "Submit"} : MainStep(act))
          /\ Len(suggestions) > 0 =>
          /\ buffer' = Accepted.buffer
          /\ cursor' = Accepted.cursor
          /\ suggestions' = <<>>
          /\ history' = history
          /\ StaysRunning]_vars

\* Submit has accepted a suggestion: no newline went in, the list is
\* closed, and the loop waits for the next key
SubmitAccepted ==
    /\ pc = "main"
    /\ action = "Submit"
    /\ suggestions = <<>>
    /\ buffer = <<"a", "a">>
    /\ outcome = "none"

\* C8: Submit with no suggestions showing and a newline already in the
\* buffer puts a newline in at the cursor; the session does not end in a
\* result and the history stays as it is.
SubmitInsertsNewline ==
    [][MainStep("Submit") /\ suggestions = <<>> /\ ContainsRune(buffer, NL) =>
          /\ buffer' = SubSeq(buffer, 1, cursor) \o <<NL>>
                            \o SubSeq(buffer, cursor + 1, Len(buffer))
          /\ cursor' = cursor + 1
          /\ history' = history
          /\ StaysRunning]_vars

\* Submit has put a second newline into a buffer of one newline (no
\* suggestion is made of newlines alone)
NewlineInserted ==
    /\ pc = "main"
    /\ action = "Submit"
    /\ buffer = <<NL, NL>>
    /\ outcome = "none"

\* C9: Ctrl+C in the main loop ends the session as interrupted with an
\* empty result, whatever the buffer and the suggestion list hold, and the
\* history stays as it is.
CancelInterrupts ==
    [][MainStep("Cancel") =>
          /\ pc' = "done"
          /\ outcome' = "ErrInterrupted"
          /\ result' = <<>>
          /\ history' = history
          /\ hmHistory' = hmHistory]_vars

\* Ctrl+C has ended a session whose buffer held text
CancelledWithText ==
    /\ pc = "done"
    /\ action = "Cancel"
    /\ r = CtrlC
    /\ buffer # <<>>
    /\ result = <<>>

\* C10 as stated: end of input from the terminal driver ends the session as
\* EndOfInput only when the buffer is empty, and with text in the buffer it
\* is a key press that does nothing and the loop goes on.
EOFIgnoredWithText ==
    [][pc = "main" /\ r' = "io.EOF" =>
          IF buffer = <<>>
          THEN pc' = "done" /\ outcome' = "ErrEOF"
          ELSE pc' = "main" /\ buffer' = buffer /\ cursor' = cursor]_vars

\* C10 as the code has it: end of input from a read of the main loop ends
\* the session as EndOfInput with an empty result whatever the buffer
\* holds, and it is the Ctrl+D key that, with text in the buffer, changes
\* neither buffer nor cursor and does not end the session.
EOFEndsSession ==
    [][/\ pc = "main" /\ r' = "io.EOF" =>
             /\ pc' = "done"
             /\ outcome' = "ErrEOF"
             /\ result' = <<>>
             /\ buffer' = buffer
             /\ history' = history
       /\ MainStep("None") /\ r' = CtrlD /\ buffer # <<>> =>
             /\ buffer' = buffer
             /\ cursor' = cursor
             /\ suggestions' = suggestions \/ pc' = "done"
             /\ StaysRunning]_vars

\* end of input has ended a session whose buffer held text
EOFWithText ==
    /\ pc = "done"
    /\ r = "io.EOF"
    /\ outcome = "ErrEOF"
    /\ buffer # <<>>

----------------------------------------------------------------------------
(* Properties of the history. *)

\* C4 as stated: whatever the history operations so far (appends, SetHistory,
\* a load from the file, clears, saves), the list of an enabled history is
\* no longer than MaxEntries and holds no two equal entries side by side.
HistoryBoundedNoRepeats ==
    enabled =>
        /\ Len(history) <= MaxEntries
        /\ \A i \in 1..(Len(history) - 1) : history[i] # history[i + 1]

\* the history after append(entry), as the store is to behave
AfterAppend(h, entry) ==
    IF entry = <<>> \/ (h # <<>> /\ h[Len(h)] = entry) THEN h ELSE Appended(h, entry)

\* the history after the appends of entries, in order
RECURSIVE AfterAppends(_, _)
AfterAppends(h, entries) ==
    IF entries = <<>> THEN h
    ELSE LET added == AddHistory(h, h, Head(entries), TRUE)
         IN  AfterAppends(added.history, Tail(entries))

\* the sequences of MaxEntries + 1 distinct non-empty texts
DistinctRuns ==
    {run \in [1..(MaxEntries + 1) -> HistTexts \ {<<>>}] :
        \A i, j \in 1..(MaxEntries + 1) : i # j => run[i] # run[j]}

\* C5 as stated: an append (AddHistory, or the line a session submits) to
\* an enabled history leaves it as it is when the entry is empty or equals
\* the last entry, and otherwise adds the entry at the end and cuts the
\* list from the front to MaxEntries; MaxEntries + 1 distinct entries added
\* to an empty history leave the newest MaxEntries in their order.
AppendSemantics ==
    /\ [](\A run \in DistinctRuns :
             AfterAppends(<<>>, run) = SubSeq(run, 2, MaxEntries + 1))
    /\ [][\A entry \in HistTexts :
             enabled /\ (CallAddHistory(entry) \/ SessionSubmits(entry)) =>
                 history' = AfterAppend(history, entry)]_vars

----------------------------------------------------------------------------
(* Properties of the keys. *)

\* C11 as stated: Ctrl+D read by the main loop while the buffer is empty
\* ends the session with ErrEOF, the error a host tests for with
\* errors.Is(err, ErrEOF).
CtrlDEndsAsErrEOF ==
    [][MainStep("None") /\ r' = CtrlD /\ buffer = <<>> =>
          pc' = "done" /\ outcome' = "ErrEOF"]_vars

\* C16 as stated: with the default key map, a key whose escape sequence is
\* bound (the arrows, Home, End, Ctrl+Left, Ctrl+Right, Delete), read by
\* the main loop, resolves to the action it is bound to.  The runes after
\* ESC are the sequence the decoder returned and the runes it left unread.
BoundSequencesResolve ==
    [][(/\ pc = "main" /\ pending = <<>> /\ ctxDone' = ctxDone
        /\ r' = ESC
        /\ (seq' \o pending') \in DOMAIN DefaultSequences)
          => action' = DefaultSequences[seq' \o pending']]_vars

\* C17: after ESC the decoder reads at most ten further runes: the
\* sequence it holds is never longer, and it never waits for an eleventh.
\* When the tenth rune is read the decoder returns what it has, which
\* resolves to no action and leaves buffer and cursor as they are.
DecoderReadsAtMostTen ==
    /\ [](Len(seq) <= EscapeLimit /\ (pc = "esc" => Len(seq) < EscapeLimit))
    /\ [][(/\ pc \in {"main", "esc"} /\ ctxDone' = ctxDone
           /\ r' = ESC
           /\ Len(seq') = EscapeLimit /\ Len(seq) < EscapeLimit)
             => /\ action' = "None"
                /\ buffer' = buffer
                /\ cursor' = cursor
                /\ StaysRunning]_vars

\* the decoder has returned ten runes that are no sequence, and the rune
\* after them is still to be read
DecoderGaveUp ==
    /\ pc = "main"
    /\ r = ESC
    /\ seq = SubSeq(LongSequence, 2, 1 + EscapeLimit)
    /\ action = "None"
    /\ pending = <<"a">>

\* C18 as stated: an escape sequence that is bound to nothing, read by the
\* main loop, resolves to no action and changes nothing: buffer, cursor,
\* suggestions and history are as before, the session does not end in a
\* result, and the whole sequence has been read, so that the loop goes on
\* with the next key press.  (A sequence longer than the decoder's limit is
\* left aside: the decoder is to stop within it.)
UnboundSequenceIgnored ==
    [][(/\ pc = "main" /\ pending = <<>> /\ ctxDone' = ctxDone
        /\ r' = ESC /\ pc' # "esc"
        /\ (seq' \o pending') \notin DOMAIN DefaultSequences
        /\ Len(seq' \o pending') <= EscapeLimit)
          => /\ action' = "None"
             /\ buffer' = buffer
             /\ cursor' = cursor
             /\ history' = history
             /\ pc' = "main" => UNCHANGED <<suggVars, historyIndex>>
             /\ StaysRunning
             /\ pending' = <<>>]_vars

\* C19 as stated: a read of the terminal that fails with an error other
\* than end of input, be it the main loop's read, the decoder's in the
\* middle of an escape sequence or history search's, ends the session with
\* an error for the caller.
ReadFailureEndsSession ==
    [][(\/ pc = "main" /\ r' = "error"
        \/ EscReadFail
        \/ SearchReadFail)
          => pc' = "done" /\ outcome' = "read failed"]_vars

----------------------------------------------------------------------------
(* Properties of completion. *)

\* C12 as stated: a step of the main loop that changes the text of the
\* buffer while suggestions are showing closes the list.
TextChangeClosesList ==
    [][pc = "main" /\ ctxDone' = ctxDone /\ Len(suggestions) > 0 /\ buffer' # buffer =>
          suggestions' = <<>>]_vars

\* the word before the cursor: the runes between the last white space
\* before the cursor and the cursor
WordBefore(b, c) ==
    LET blanks == {i \in 1..c : IsSpace(b[i])}
        start == IF blanks = {} THEN 0 ELSE CHOOSE i \in blanks : \A j \in blanks : j <= i
    IN  SubSeq(b, start + 1, c)

\* the completer's results for the buffer that begin with the word before
\* the cursor, in the completer's order
Matching ==
    SelectSeq(Completer(buffer, cursor),
              LAMBDA t : HasPrefix(t, WordBefore(buffer, cursor)))

\* C13: Complete with no suggestions showing and a completer configured:
\* when no result of the completer begins with the current word the list
\* stays closed and buffer and cursor are as before; when exactly one does
\* it is accepted at once and the list stays closed; when several do they
\* are shown with the first selected and the window at the top.
CompleteFromIdle ==
    [][MainStep("Complete") /\ completerSet /\ suggestions = <<>> =>
          /\ StaysRunning
          /\ Len(Matching) = 0 =>
                 suggestions' = <<>> /\ buffer' = buffer /\ cursor' = cursor
          /\ Len(Matching) = 1 =>
                 /\ suggestions' = <<>>
                 /\ buffer' = acceptSuggestion(buffer, cursor, Matching[1]).buffer
                 /\ cursor' = acceptSuggestion(buffer, cursor, Matching[1]).cursor
          /\ Len(Matching) > 1 =>
                 /\ buffer' = buffer /\ cursor' = cursor
                 /\ pc' = "main" =>
                        /\ suggestions' = Matching
                        /\ selectedSuggestion' = 0
                        /\ suggestionOffset' = 0]_vars

\* Tab after "aa" found one completion, which went into the buffer at once
SingleCompleted ==
    /\ pc = "main"
    /\ action = "Complete"
    /\ completerSet
    /\ buffer = <<"a", "a", "a">>
    /\ cursor = 3
    /\ suggestions = <<>>

\* the window position nearest to off that shows the entry sel
ScrolledIntoView(off, sel) ==
    IF sel < off THEN sel
    ELSE IF sel >= off + MaxDisplayed THEN sel - MaxDisplayed + 1
    ELSE off

\* the list stays as it is, the selection becomes sel, and the window moves
\* just far enough to show it
SelectionMovesTo(sel) ==
    /\ suggestions' = suggestions
    /\ selectedSuggestion' = sel
    /\ suggestionOffset' = ScrolledIntoView(suggestionOffset, sel)
    /\ buffer' = buffer
    /\ cursor' = cursor

\* C14: while suggestions are showing, MoveUp and MoveDown move the
\* selection by one entry, and leave it at the first and at the last entry
\* (no wrapping); the window moves only when the selection would leave its
\* ten rows, and then by the least that shows it, so that the selection is
\* always within the window.
SelectionStaysInWindow ==
    /\ [](Len(suggestions) > 0 =>
             /\ suggestionOffset <= selectedSuggestion
             /\ selectedSuggestion < suggestionOffset + MaxDisplayed)
    /\ [][MainStep("MoveDown") /\ Len(suggestions) > 0 /\ pc' = "main" =>
             SelectionMovesTo(IF selectedSuggestion = Len(suggestions) - 1
                              THEN selectedSuggestion
                              ELSE selectedSuggestion + 1)]_vars
    /\ [][MainStep("MoveUp") /\ Len(suggestions) > 0 /\ pc' = "main" =>
             SelectionMovesTo(IF selectedSuggestion = 0
                              THEN selectedSuggestion
                              ELSE selectedSuggestion - 1)]_vars

\* after the window had scrolled down by one row, MoveUp has brought the
\* selection to the window's first row, and the window has not moved
WindowHeldMovingUp ==
    /\ pc = "main"
    /\ action = "MoveUp"
    /\ Len(suggestions) > MaxDisplayed
    /\ selectedSuggestion = 1
    /\ suggestionOffset = 1

\* text has gone into the buffer at the cursor, and the cursor is after it
InsertedAtCursor(text) ==
    /\ buffer' = SubSeq(buffer, 1, cursor) \o text \o SubSeq(buffer, cursor + 1, Len(buffer))
    /\ cursor' = cursor + Len(text)

\* the word runes around the cursor begin after offset WordStart and end at
\* offset WordEnd
WordStart ==
    CHOOSE i \in 0..cursor :
        /\ \A j \in (i + 1)..cursor : isWordChar(buffer[j])
        /\ i > 0 => ~isWordChar(buffer[i])

WordEnd ==
    CHOOSE i \in cursor..Len(buffer) :
        /\ \A j \in (cursor + 1)..i : isWordChar(buffer[j])
        /\ i < Len(buffer) => ~isWordChar(buffer[i + 1])

\* C15 as stated: accepting a suggestion takes the first of four cases that
\* applies.  With no current word the text goes in at the cursor; a text
\* that begins with the current word gives only what follows the word; at
\* the end of a word (the buffer ends, or no word rune follows) a blank
\* goes in, unless one is before the cursor, and then the text; inside a
\* word the text takes the place of the word under the cursor.  The cursor
\* ends after the text put in.
AcceptFourCases ==
    [][pc = "accept" /\ pc' = "accepted" =>
          LET text == suggestions[selectedSuggestion + 1]
              word == WordBefore(buffer, cursor)
          IN  IF word = <<>> THEN InsertedAtCursor(text)
              ELSE IF HasPrefix(text, word)
              THEN InsertedAtCursor(SubSeq(text, Len(word) + 1, Len(text)))
              ELSE IF cursor = Len(buffer) \/ ~isWordChar(buffer[cursor + 1])
              THEN InsertedAtCursor((IF cursor > 0 /\ IsSpace(buffer[cursor])
                                     THEN <<>> ELSE <<" ">>) \o text)
              ELSE /\ buffer' = SubSeq(buffer, 1, WordStart) \o text
                                    \o SubSeq(buffer, WordEnd + 1, Len(buffer))
                   /\ cursor' = WordStart + Len(text)]_vars

----------------------------------------------------------------------------
(* Properties of history search. *)

\* what Submit takes from history search: the selected result, or the
\* query typed when there is no result
SearchChoice ==
    IF searchResults # <<>> THEN searchResults[selectedIndex + 1] ELSE searchBuffer

\* a key other than Submit, Cancel and Escape keeps history search open and
\* the main buffer as it is, and Tab moves the selection to the next result
\* and changes nothing else
SearchStaysOpen(rn) ==
    /\ pc' = "search"
    /\ buffer' = buffer
    /\ cursor' = cursor
    /\ rn = TAB =>
           /\ searchBuffer' = searchBuffer
           /\ searchResults' = searchResults
           /\ searchResults # <<>> =>
                  selectedIndex' = IF selectedIndex = Len(searchResults) - 1
                                   THEN 0 ELSE selectedIndex + 1

\* C20 as stated: history search is left only by Submit, Cancel or Escape.
\* Submit makes the main buffer the selected result, or the query typed
\* when there is no result; Cancel and Escape leave buffer and cursor as
\* they were, and the session goes on; Tab only moves the selection.
SearchSubmitAdopts ==
    [][pc = "search" /\ ctxDone' = ctxDone =>
          \A rd \in Reads(SearchKeys) : SearchRead(rd) =>
              IF rd[1] \in {CR, NL}
              THEN buffer' = SearchChoice /\ StaysRunning
              ELSE IF rd[1] \in {CtrlC, ESC}
              THEN buffer' = buffer /\ cursor' = cursor /\ StaysRunning
              ELSE SearchStaysOpen(rd[1])]_vars

\* C20 as the code has it: history search is left, by a key, only on
\* Submit, Cancel or Escape.  Submit makes the main buffer the selected
\* result, or the query typed when there is no result, with the cursor at
\* its end, unless that text is empty, when buffer and cursor stay as they
\* were; Cancel and Escape leave buffer and cursor as they were; in each
\* case the session goes on.  Tab only moves the selection to the next
\* result, from the last to the first.
SearchSubmitAdoptsText ==
    [][pc = "search" /\ ctxDone' = ctxDone =>
          \A rd \in Reads(SearchKeys) : SearchRead(rd) =>
              IF rd[1] \in {CR, NL}
              THEN /\ StaysRunning
                   /\ IF SearchChoice # <<>>
                      THEN buffer' = SearchChoice /\ cursor' = Len(SearchChoice)
                      ELSE buffer' = buffer /\ cursor' = cursor
              ELSE IF rd[1] \in {CtrlC, ESC}
              THEN buffer' = buffer /\ cursor' = cursor /\ StaysRunning
              ELSE SearchStaysOpen(rd[1])]_vars

\* Submit in history search has put the history's first entry, of two
\* lines, into the main buffer
SearchAdopted ==
    /\ pc = "main"
    /\ action = "HistorySearch"
    /\ r = CtrlR
    /\ buffer = <<"a", NL>>
    /\ cursor = 2
    /\ history = <<<<"a", NL>>, <<"a">>>>

----------------------------------------------------------------------------
(* Properties of the renderer. *)

\* the rows a call cleared before it drew: the erase codes it wrote ahead
\* of the code that hides the cursor
ClearedRows(out) ==
    LET hides == {i \in 1..Len(out) : out[i][1] = "hide"}
        ahead == IF hides = {} THEN out
                 ELSE SubSeq(out, 1, (CHOOSE i \in hides : \A j \in hides : i <= j) - 1)
    IN  Len(SelectSeq(ahead, LAMBDA t : t[1] \in {"el", "el2"}))

TermWidths == {4, 80}

\* the rows a line of len columns takes on a terminal w wide
RowsOf(len, w) == IF len = 0 THEN 1 ELSE (len + w - 1) \div w

\* the rows the draw of the last call takes on a terminal w wide
RowsDrawn(w) ==
    LET lines == splitIntoLines(call.input)
        RECURSIVE Sum(_)
        Sum(i) == IF i > Len(lines) THEN 0
                  ELSE RowsOf(call.prefixLen + Len(lines[i]), w) + Sum(i + 1)
    IN  Sum(1) + Min(call.n, 10)

\* C22: after every call of the renderer that drew, lastLines is the number
\* of rows of the terminal the draw takes: for each line of the input the
\* width of the prefix or indentation plus that of the line, divided by the
\* width of the terminal and rounded up, at least 1, and the rows of the
\* suggestions shown.
RecordsRowsDrawn ==
    (pc = "render" /\ call.err = "nil") => \A w \in TermWidths : lastLines = RowsDrawn(w)

\* the suggestions a call drew, by index, in the order drawn
DrawnItems(out) ==
    LET rows == SelectSeq(out, LAMBDA t : t[1] \in {"item", "selected"})
    IN  [i \in 1..Len(rows) |-> rows[i][2]]

\* the indices from first up to, not including, last
Indices(first, last) == [i \in 1..Max(0, last - first) |-> first + i - 1]

\* C23 as stated: whatever selection and offset are passed, a call draws at
\* most 10 suggestions, and they are the items from the offset passed up to
\* 10 further.
DrawsSliceAtOffset ==
    (pc = "render" /\ call.err = "nil" /\ call.n > 0)
        => /\ Len(DrawnItems(output)) <= 10
           /\ DrawnItems(output)
                = Indices(Max(0, call.offset), Min(call.offset + 10, call.n))

\* C23: whatever selection and offset are passed, a call draws at most 10
\* suggestions: all of a list of at most 10, whatever the offset, and of a
\* longer list the 10 from the offset, moved into 0..len-10.
DrawsSliceAtClampedOffset ==
    (pc = "render" /\ call.err = "nil" /\ call.n > 0)
        => LET o == IF call.n <= 10 THEN 0
                    ELSE Max(0, Min(call.offset, call.n - 10))
           IN  /\ Len(DrawnItems(output)) <= 10
               /\ DrawnItems(output) = Indices(o, Min(o + 10, call.n))

\* a list of twelve was drawn at an offset above the last one it has
DrewLastTenOfTwelve ==
    /\ pc = "render"
    /\ call.err = "nil"
    /\ call.n = 12
    /\ call.offset = 3
    /\ DrawnItems(output) = Indices(2, 12)

----------------------------------------------------------------------------
(* Properties of the history file. *)

\* the history file and its backups that exist
FileCount == Cardinality({i \in DOMAIN files : files[i] # NoFile})

\* a step in which the history was saved and something came of it
Saved == files' # files \/ saveErr' # saveErr

\* C24: whatever the saves, and the rotations they start, the history file
\* and its backups are never more than MaxBackups + 1 files, and after a
\* save without error the history file exists and holds, line by line, the
\* entries in memory, so that it can be loaded.
KeepsAtMostBackups ==
    [][Saved =>
        /\ FileCount' <= newFromConfigMaxBackups(maxBackups) + 1
        /\ saveErr' = "nil" =>
            /\ files'[0] # NoFile
            /\ files'[0] = WriteEntries(hmHistory')]_vars

\* a save without error has left the file and every backup of the largest
\* configuration
AllBackupsFilled ==
    /\ saveErr = "nil"
    /\ maxBackups = MaxBackups
    /\ \A i \in 0..MaxBackups : files[i] # NoFile

\* C25: when the host configures MaxBackups = 0, no save leaves a backup:
\* a rotation only truncates the history file.
NoBackupWhenZero ==
    maxBackups = 0 => \A i \in DOMAIN files : i >= 1 => files[i] = NoFile

\* C26: a save that leaves the history file without the entries in memory
\* returns an error, and it leaves the prompt where it was: its buffer, its
\* cursor, its suggestions and its own history.
SaveFailureSurfaces ==
    [][Saved =>
        /\ files'[0] # WriteEntries(hmHistory') => saveErr' = "error"
        /\ UNCHANGED <<pc, editVars, suggVars, history, endVars>>]_vars

\* a save failed with entries in memory
SaveFailed == pc = "host" /\ saveErr = "error" /\ hmHistory # <<>>

----------------------------------------------------------------------------
(* The fuzzy scorer away from a session: an input is scored against a list *)
(* of candidates, by the history search and by the fuzzy completer.  Here  *)
(* history holds the candidates of both, buffer the input, searchResults   *)
(* what Search returns and suggestions what Complete returns.              *)

\* the longest input scored
MaxInput == 20

\* the candidates of one list
MaxCandidates == 3

Repeat(c, n) == [i \in 1..n |-> c]

ScoreInputs ==
    {Repeat("a", n) : n \in {0, 1, 2, MaxInput - 1, MaxInput}} \cup {<<"A", "a">>}

\* a candidate that holds the input's runes in order but not side by side;
\* an input of one rune has none
Scattered(input) ==
    IF Len(input) >= 2 THEN <<input[1], "b">> \o Tail(input) ELSE <<"c">>

\* candidates of every class for an input: the input itself, two that begin
\* with it, one that holds it further on, one that holds its runes apart,
\* and one that holds none of them
ScoreCandidates(input) ==
    {input, input \o <<"b">>, input \o <<"c">>, <<"b">> \o input,
     Scattered(input), <<"c">>}

InitScore ==
    /\ pc = "score"
    /\ buffer \in ScoreInputs
    /\ cursor = Len(buffer)
    /\ history \in [1..MaxCandidates -> ScoreCandidates(buffer)]
    /\ suggestions = <<>>
    /\ selectedSuggestion = 0
    /\ suggestionOffset = 0
    /\ historyIndex = 0
    /\ hmHistory = <<>>
    /\ enabled = TRUE
    /\ files = NoFiles
    /\ saveErr = "none"
    /\ completerSet = TRUE
    /\ keyboard = "editing"
    /\ maxBackups = MaxBackups
    /\ r = "none"
    /\ seq = <<>>
    /\ action = "None"
    /\ pending = <<>>
    /\ searchBuffer = <<>>
    /\ searchResults = <<>>
    /\ selectedIndex = 0
    /\ rawMode = TRUE
    /\ restoreCalls = 0
    /\ restored = FALSE
    /\ ctxDone = FALSE
    /\ outcome = "none"
    /\ result = <<>>
    /\ newRenderer

\* historySearcher.Search(query) and fuzzyCompleter.Complete(document)
ScoreStep ==
    /\ pc = "score"
    /\ pc' = "scored"
    /\ searchResults' = Search(history, buffer)
    /\ suggestions' = Complete(history, TextBeforeCursor(buffer, cursor))
    /\ UNCHANGED <<editVars, selectedSuggestion, suggestionOffset, historyIndex, histVars,
                   cfgVars, rendVars, keyVars, pending, searchBuffer, selectedIndex,
                   termVars, ctxDone, endVars>>

NextScore == ScoreStep

SpecScore == InitScore /\ [][NextScore]_vars

----------------------------------------------------------------------------
(* Properties of the fuzzy scorer. *)

\* the class of a match, the better the higher: the candidate is the input,
\* begins with it, holds it, or neither; letter case set aside
MatchClass(input, candidate) ==
    LET i == ToLower(input)
        c == ToLower(candidate)
    IN  IF i = c THEN 4
        ELSE IF HasPrefix(c, i) THEN 3
        ELSE IF Contains(c, i) THEN 2
        ELSE 1

\* the score of a candidate for the input in the buffer, as Search and
\* Complete compute it
ScoreOf(candidate) == calculateFuzzyScore(ToLower(buffer), ToLower(candidate), FALSE)

\* C27: for every input that is not empty and every two candidates, the
\* candidate of the better class scores strictly more, and no score is
\* negative, whatever the input's length.
ScoresOrderedByClass ==
    pc = "scored" /\ buffer # <<>> =>
        \A i, j \in 1..Len(history) :
            /\ ScoreOf(history[i]) >= 0
            /\ MatchClass(buffer, history[i]) > MatchClass(buffer, history[j])
                   => ScoreOf(history[i]) > ScoreOf(history[j])

Count(s, e) == Cardinality({i \in 1..Len(s) : s[i] = e})

\* the results are the candidates that match, each as often as it is listed
HoldsMatches(res) ==
    \A e \in ScoreCandidates(buffer) :
        Count(res, e) = IF ScoreOf(e) > 0 THEN Count(history, e) ELSE 0

Descending(res) ==
    \A i, j \in 1..Len(res) : i < j => ScoreOf(res[i]) >= ScoreOf(res[j])

\* results of one score stand in the order the candidates were listed in
KeepsTies(res) ==
    \A sc \in {ScoreOf(e) : e \in ScoreCandidates(buffer)} :
        SelectSeq(res, LAMBDA e : ScoreOf(e) = sc)
            = SelectSeq(history, LAMBDA e : ScoreOf(e) = sc /\ sc > 0)

\* C28 as stated: Search and Complete return the candidates that match,
\* sorted by score, the best first, and candidates of one score in the
\* order they were listed in.
SortedAndStable ==
    pc = "scored" =>
        /\ HoldsMatches(searchResults) /\ HoldsMatches(suggestions)
        /\ Descending(searchResults) /\ Descending(suggestions)
        /\ KeepsTies(searchResults) /\ KeepsTies(suggestions)

\* C28: Search and Complete return the candidates that match, each as often
\* as it is listed, sorted by score, the best first; candidates of one score
\* come in an order the exchanges of the sort decide.
SortedByScore ==
    pc = "scored" =>
        /\ HoldsMatches(searchResults) /\ HoldsMatches(suggestions)
        /\ Descending(searchResults) /\ Descending(suggestions)

\* a search whose sort exchanged two candidates of one score
TiesExchanged ==
    /\ pc = "scored"
    /\ Len(searchResults) = MaxCandidates
    /\ ~KeepsTies(searchResults)
    /\ ScoreOf(searchResults[1]) > ScoreOf(searchResults[2])

----------------------------------------------------------------------------
(* The cursor in a buffer of several lines: the cases ActionMoveUp and     *)
(* ActionMoveDown of the loop when no suggestion is shown, from every      *)
(* cursor of every buffer.                                                 *)

\* the longest buffer the cursor is moved in
MaxLineBuf == 5

LineBuffers == UNION {[1..n -> {"a", " ", NL}] : n \in 0..MaxLineBuf}

InitLines ==
    /\ pc = "lines"
    /\ buffer \in LineBuffers
    /\ cursor \in 0..Len(buffer)
    /\ suggestions = <<>>
    /\ selectedSuggestion = 0
    /\ suggestionOffset = 0
    /\ historyIndex = 0
    /\ history = <<>>
    /\ hmHistory = <<>>
    /\ enabled = TRUE
    /\ files = NoFiles
    /\ saveErr = "none"
    /\ completerSet = TRUE
    /\ keyboard = "editing"
    /\ maxBackups = MaxBackups
    /\ r = "none"
    /\ seq = <<>>
    /\ action = "None"
    /\ pending = <<>>
    /\ searchBuffer = <<>>
    /\ searchResults = <<>>
    /\ selectedIndex = 0
    /\ rawMode = TRUE
    /\ restoreCalls = 0
    /\ restored = FALSE
    /\ ctxDone = FALSE
    /\ outcome = "none"
    /\ result = <<>>
    /\ newRenderer

\* p.cursor = p.findCursorUp()
CursorUp ==
    /\ pc = "lines"
    /\ action' = "MoveUp"
    /\ cursor' = findCursorUp(buffer, cursor)
    /\ UNCHANGED <<pc, buffer, suggVars, historyIndex, histVars, cfgVars, rendVars, r, seq,
                   pending, searchVars, termVars, ctxDone, endVars>>

\* p.cursor = p.findCursorDown()
CursorDown ==
    /\ pc = "lines"
    /\ action' = "MoveDown"
    /\ cursor' = findCursorDown(buffer, cursor)
    /\ UNCHANGED <<pc, buffer, suggVars, historyIndex, histVars, cfgVars, rendVars, r, seq,
                   pending, searchVars, termVars, ctxDone, endVars>>

\* p.cursor = p.findWordBoundary(-1)
CursorWordLeft ==
    /\ pc = "lines"
    /\ action' = "MoveWordLeft"
    /\ cursor' = findWordBoundary(buffer, cursor, -1)
    /\ UNCHANGED <<pc, buffer, suggVars, historyIndex, histVars, cfgVars, rendVars, r, seq,
                   pending, searchVars, termVars, ctxDone, endVars>>

\* p.cursor = p.findWordBoundary(1)
CursorWordRight ==
    /\ pc = "lines"
    /\ action' = "MoveWordRight"
    /\ cursor' = findWordBoundary(buffer, cursor, 1)
    /\ UNCHANGED <<pc, buffer, suggVars, historyIndex, histVars, cfgVars, rendVars, r, seq,
                   pending, searchVars, termVars, ctxDone, endVars>>

NextLines == CursorUp \/ CursorDown \/ CursorWordLeft \/ CursorWordRight

SpecLines == InitLines /\ [][NextLines]_vars

----------------------------------------------------------------------------
(* Properties of the cursor between lines. *)

\* where the line of position c begins: after the last newline before c
LineStartOf(b, c) ==
    LET nls == {i \in 1..c : b[i] = NL}
    IN  IF nls = {} THEN 0 ELSE CHOOSE i \in nls : \A j \in nls : j <= i

\* where the line of position c ends: at the first newline from c on
LineEndOf(b, c) ==
    LET nls == {i \in (c + 1)..Len(b) : b[i] = NL}
    IN  IF nls = {} THEN Len(b) ELSE (CHOOSE i \in nls : \A j \in nls : i <= j) - 1

Column(b, c) == c - LineStartOf(b, c)

\* the position a line above: the same column, or the line's end
PositionAbove(b, c) ==
    LET end == LineStartOf(b, c) - 1
        start == LineStartOf(b, end)
    IN  IF LineStartOf(b, c) = 0 THEN c
        ELSE start + Min(Column(b, c), end - start)

\* the position a line below: the same column, or the line's end
PositionBelow(b, c) ==
    LET start == LineEndOf(b, c) + 1
        end == LineEndOf(b, start)
    IN  IF LineEndOf(b, c) = Len(b) THEN c
        ELSE start + Min(Column(b, c), end - start)

\* C29: cursorUp and cursorDown put the cursor on the line above or below
\* at the column it had, or at that line's end when the line is shorter; on
\* the first line cursorUp, and on the last line cursorDown, leave it.
KeepsColumn ==
    [][/\ action' = "MoveUp" => cursor' = PositionAbove(buffer, cursor)
       /\ action' = "MoveDown" => cursor' = PositionBelow(buffer, cursor)]_vars

\* cursorUp has put the cursor at the end of a line that is neither the
\* first nor as long as the line below it
UpIntoShorterLine ==
    /\ pc = "lines"
    /\ action = "MoveUp"
    /\ LineStartOf(buffer, cursor) > 0
    /\ cursor = LineEndOf(buffer, cursor)
    /\ LineEndOf(buffer, cursor) < Len(buffer)
    /\ LineEndOf(buffer, cursor + 1) - (cursor + 1) > Column(buffer, cursor)

----------------------------------------------------------------------------
(* Properties of cancellation. *)

\* the session waits in a read: of the main loop, of the decoder, of the
\* history search
Reading(at) == at \in {"main", "esc", "search"}

\* C30: the context is checked before each read: once it is cancelled, the
\* input unit the session waits for (a rune, or ESC and the sequence after
\* it) is its last, and no step after it starts the read of another unit,
\* in the main loop or in the history search.
NoReadOnceCancelled ==
    [][ctxDone /\ Reading(pc) => pc' \notin {"main", "search"}]_vars

\* the check at the top of the main loop alone: once the context is
\* cancelled no step starts a read of the main loop
NoMainReadOnceCancelled ==
    [][ctxDone /\ Reading(pc) => pc' # "main"]_vars

----------------------------------------------------------------------------
(* Properties of the word moves. *)

\* the offsets just past a word: a word rune before, none after
WordEnds(b) ==
    {e \in 1..Len(b) : isWordChar(b[e]) /\ (e = Len(b) \/ ~isWordChar(b[e + 1]))}

\* the offsets where a word starts: a word rune after, none before
WordStarts(b) ==
    {s \in 0..(Len(b) - 1) : isWordChar(b[s + 1]) /\ (s = 0 \/ ~isWordChar(b[s]))}

\* just past the next word, or the buffer's end when no word follows
PastNextWord(b, c) ==
    LET ends == {e \in WordEnds(b) : e > c}
    IN  IF ends = {} THEN Len(b) ELSE CHOOSE e \in ends : \A f \in ends : e <= f

\* the start of the previous word, or 0 when no word starts before
PreviousWordStart(b, c) ==
    LET starts == {s \in WordStarts(b) : s < c}
    IN  IF starts = {} THEN 0 ELSE CHOOSE s \in starts : \A t \in starts : t <= s

----------------------------------------------------------------------------
(* Properties of Enter in multiline mode. *)

\* the buffer's text ends with a backslash
EndsWithBackslash(b) == b # <<>> /\ b[Len(b)] = "\\"

\* C32: in multiline mode, Enter on a text that ends with a backslash does
\* not submit (the input continues on a new line), and Enter on any other
\* text submits the whole text.
EnterFollowsBackslash ==
    [][MainStep("Submit") /\ keyboard = "multiline" /\ Len(suggestions) = 0 =>
        IF EndsWithBackslash(buffer)
        THEN ~(pc' = "done" /\ outcome' = "nil")
        ELSE pc' = "done" /\ outcome' = "nil" /\ result' = buffer]_vars

----------------------------------------------------------------------------
(* Properties of a prompt whose history is disabled. *)

\* Prompt.GetHistory
GetHistory == ManagerGetHistory(hmHistory, enabled)

\* C33: with the history disabled, whatever the host has called and the
\* sessions have submitted, GetHistory returns no entry and the list a
\* session moves through with Up and Down and searches with Ctrl+R is empty.
DisabledHistoryEmpty ==
    ~enabled => GetHistory = <<>> /\ history = <<>>

----------------------------------------------------------------------------
(* Sessions of one prompt, one after the other, as the renderer sees them: *)
(* RunWithContext draws the empty prompt, every turn of its loop draws the *)
(* state the action has left, and the return draws nothing.  The renderer  *)
(* is the one newFromConfig made.                                          *)

InitSessions ==
    /\ pc = "host"
    /\ buffer = <<>>
    /\ cursor = 0
    /\ suggestions = <<>>
    /\ selectedSuggestion = 0
    /\ suggestionOffset = 0
    /\ historyIndex = 0
    /\ history = <<>>
    /\ hmHistory = <<>>
    /\ enabled = TRUE
    /\ files = NoFiles
    /\ saveErr = "none"
    /\ completerSet = TRUE
    /\ keyboard = "editing"
    /\ maxBackups = MaxBackups
    /\ r = "none"
    /\ seq = <<>>
    /\ action = "None"
    /\ pending = <<>>
    /\ searchBuffer = <<>>
    /\ searchResults = <<>>
    /\ selectedIndex = 0
    /\ rawMode = FALSE
    /\ restoreCalls = 0
    /\ restored = FALSE
    /\ ctxDone = FALSE
    /\ outcome = "none"
    /\ result = <<>>
    /\ newRenderer

\* the renderer draws the prompt's state: p.renderWithSuggestionsOffset
Draws(prefixLen, b, c, n, selected, offset, fails) ==
    LET rs == renderWithSuggestionsOffset(lastLines, suggestionsActive, prefixLen,
                                          b, c, n, selected, offset, fails)
    IN  /\ lastLines' = rs.lastLines
        /\ suggestionsActive' = rs.suggestionsActive
        /\ output' = rs.output
        /\ call' = [prefixLen |-> prefixLen, input |-> b, cursor |-> c, n |-> n,
                    selected |-> selected, offset |-> offset, err |-> rs.err]
        /\ pc' = IF fails THEN "host" ELSE "running"

\* RunWithContext up to its first read: the buffer is emptied and p.render()
\* draws it
RunStarts ==
    /\ pc = "host"
    /\ buffer' = <<>>
    /\ cursor' = 0
    /\ suggestions' = <<>>
    /\ selectedSuggestion' = 0
    /\ suggestionOffset' = 0
    /\ \E prefixLen \in RenderPrefixes, fails \in BOOLEAN :
        Draws(prefixLen, <<>>, 0, 0, 0, 0, fails)
    /\ UNCHANGED <<historyIndex, histVars, cfgVars, keyVars, pending, searchVars, termVars,
                   ctxDone, endVars>>

\* a turn of the loop that does not return: the action leaves a buffer, a
\* cursor and a list of suggestions, and the loop draws them
RunRenders ==
    /\ pc = "running"
    /\ \E prefixLen \in RenderPrefixes, b \in RenderInputs, n \in {0, 2}, fails \in BOOLEAN :
        \E c \in {0, Len(b)}, selected \in (IF n = 0 THEN {0} ELSE {0, n - 1}) :
            /\ buffer' = b
            /\ cursor' = c
            /\ suggestions' = [i \in 1..n |-> <<"a">>]
            /\ selectedSuggestion' = selected
            /\ suggestionOffset' = 0
            /\ Draws(prefixLen, b, c, n, selected, 0, fails)
    /\ UNCHANGED <<historyIndex, histVars, cfgVars, keyVars, pending, searchVars, termVars,
                   ctxDone, endVars>>

\* a turn of the loop that returns, for Submit, Cancel or a failed read:
\* nothing is drawn, and the locals are gone
RunReturns ==
    /\ pc = "running"
    /\ pc' = "host"
    /\ suggestions' = <<>>
    /\ selectedSuggestion' = 0
    /\ suggestionOffset' = 0
    /\ UNCHANGED <<editVars, historyIndex, histVars, cfgVars, rendVars, keyVars, pending,
                   searchVars, termVars, ctxDone, endVars>>

NextSessions == RunStarts \/ RunRenders \/ RunReturns

SpecSessions == InitSessions /\ [][NextSessions]_vars

----------------------------------------------------------------------------
(* Properties of sessions in a row. *)

\* what a renderer that has drawn nothing writes for the last call
FirstDrawOutput ==
    renderWithSuggestionsOffset(0, FALSE, call.prefixLen, call.input, call.cursor, call.n,
                                call.selected, call.offset, call.err = "error").output

\* C34: every session of a prompt starts with an empty buffer, the cursor
\* at 0, no suggestions, and a renderer that records no earlier draw: its
\* first draw writes what the first draw of a new prompt writes, and clears
\* no row an earlier session left.
SessionStartsFresh ==
    [][pc = "host" =>
        /\ buffer' = <<>> /\ cursor' = 0 /\ suggestions' = <<>>
        /\ output' = FirstDrawOutput']_vars

----------------------------------------------------------------------------
(* Properties of saving and loading. *)

\* C35: when a save has left in the file the entries in memory, loading the
\* file into a new store yields those entries, in their order, whatever the
\* entries are.
SaveLoadRoundTrip ==
    enabled /\ saveErr = "nil" /\ files[0] = WriteEntries(hmHistory) =>
        LoadHistory(<<>>, files[0], enabled) = hmHistory

----------------------------------------------------------------------------
(* A session whose user wants the line submitted: whatever else is typed,  *)
(* Enter is pressed again whenever the session can take it.                *)

InitSubmit ==
    /\ pc = "idle"
    /\ buffer = <<>>
    /\ cursor = 0
    /\ suggestions = <<>>
    /\ selectedSuggestion = 0
    /\ suggestionOffset = 0
    /\ historyIndex = 0
    /\ history \in InitHistories
    /\ hmHistory = history
    /\ enabled = TRUE
    /\ files = NoFiles
    /\ saveErr = "none"
    /\ completerSet = FALSE
    /\ keyboard = "submit"
    /\ maxBackups = MaxBackups
    /\ r = "none"
    /\ seq = <<>>
    /\ action = "None"
    /\ pending = <<>>
    /\ searchBuffer = <<>>
    /\ searchResults = <<>>
    /\ selectedIndex = 0
    /\ rawMode = FALSE
    /\ restoreCalls = 0
    /\ restored = FALSE
    /\ ctxDone = FALSE
    /\ outcome = "none"
    /\ result = <<>>
    /\ newRenderer

NextSubmit == Run \/ MainKey

\* the main loop reads Enter
PressEnter == MainKey /\ r' = CR

SpecSubmit ==
    InitSubmit /\ [][NextSubmit]_vars /\ WF_vars(NextSubmit) /\ SF_vars(PressEnter)

----------------------------------------------------------------------------
(* Properties of submitting. *)

\* C36: from every state of a running session some key presses end it as
\* submitted: with a user who presses Enter again and again, a session that
\* waits for a key ends with the line returned, unless a draw fails first;
\* a buffer that holds a newline is no exception.
RunningLeadsToSubmitted ==
    (pc = "main") ~> (pc = "done" /\ outcome \in {"nil", "render failed"})

\* no session returns a text that holds a newline
NoNewlineSubmitted ==
    pc = "done" /\ outcome = "nil" => ~ContainsRune(result, NL)

----------------------------------------------------------------------------
(* A prompt made over a long history file: the host closes it, which saves *)
(* and rotates, and makes a new prompt over the same file.                 *)

\* the most lines of the history file the first prompt is made over
MaxLines == 203

\* the lines of the file: around twice RotateKeepAll
RotateLines == (MaxLines - 7)..MaxLines

\* line i of the file
LineOf(i) == IF i % 2 = 1 THEN <<"a">> ELSE <<"b">>

InitRotate ==
    /\ pc = "host"
    /\ buffer = <<>>
    /\ cursor = 0
    /\ suggestions = <<>>
    /\ selectedSuggestion = 0
    /\ suggestionOffset = 0
    /\ historyIndex = 0
    /\ enabled = TRUE
    /\ \E n \in RotateLines :
        files = [NoFiles EXCEPT ![0] = WriteEntries([i \in 1..n |-> LineOf(i)])]
    /\ hmHistory = LoadHistory(<<>>, files[0], enabled)
    /\ history = ManagerGetHistory(hmHistory, enabled)
    /\ saveErr = "none"
    /\ completerSet = FALSE
    /\ keyboard = "editing"
    /\ maxBackups \in 0..MaxBackups
    /\ r = "none"
    /\ seq = <<>>
    /\ action = "None"
    /\ pending = <<>>
    /\ searchBuffer = <<>>
    /\ searchResults = <<>>
    /\ selectedIndex = 0
    /\ rawMode = FALSE
    /\ restoreCalls = 0
    /\ restored = FALSE
    /\ ctxDone = FALSE
    /\ outcome = "none"
    /\ result = <<>>
    /\ newRenderer

NextRotate == CallClose \/ CallNew

SpecRotate == InitRotate /\ [][NextRotate]_vars

----------------------------------------------------------------------------
(* Properties of a save that rotates. *)

\* the save of this step finds the file at its size limit and rotates it
Rotates == files[0] # NoFile /\ Len(files[0]) >= MaxFileSize

\* the newer half of a list
NewerHalf(list) == SubSeq(list, Len(list) - (Len(list) \div 2) + 1, Len(list))

CopiesAgree ==
    enabled => history = ManagerGetHistory(hmHistory, enabled)

----------------------------------------------------------------------------
(* Properties of the units of an escape sequence. *)

\* C39: when the main loop reads the ESC of a key press and the decoder
\* returns, every rune the terminal delivered for that key press has been
\* read by the decoder: none is left for the main loop to insert as text or
\* to take for another key.
EscapeUnitsConsumed ==
    [][pc = "main" /\ pending = <<>> /\ r' = ESC /\ pc' # "esc"
          => pending' = <<>>]_vars

\* the same for the key presses whose sequence has no semicolon and is no
\* longer than the decoder's limit
PlainSequenceConsumed ==
    [][(/\ pc = "main" /\ pending = <<>> /\ r' = ESC /\ pc' # "esc"
        /\ ";" \notin {(seq' \o pending')[i] : i \in 1..Len(seq' \o pending')}
        /\ Len(seq' \o pending') <= EscapeLimit)
          => pending' = <<>>]_vars

----------------------------------------------------------------------------
(* Properties of the row a draw starts on.  The terminal is taken to have  *)
(* rows enough above and below the prompt, and to be wider than any row    *)
(* drawn, so that no move is cut short and no text wraps.                  *)

\* the rows the terminal cursor has moved down by when tokens are written
RECURSIVE RowsDown(_)
RowsDown(tokens) ==
    IF tokens = <<>> THEN 0
    ELSE LET code == Head(tokens)[1]
             n == Head(tokens)[2]
         IN  (IF code = "lf" THEN 1
              ELSE IF code = "cud" THEN n
              ELSE IF code = "cuu" THEN 0 - n
              ELSE 0) + RowsDown(Tail(tokens))

\* C40: every call of the renderer leaves the terminal cursor on the row
\* on which it started to write, the first row of its draw, which is the
\* row clearPreviousLines of the next call takes it to be on: the next
\* draw starts on the same row.
DrawKeepsRow == RowsDown(output) = 0

\* the same for the calls without a suggestion list whose cursor is in the
\* first line of the input
DrawWithoutListKeepsRow ==
    call.n = 0 /\ findCursorPosition(call.input, call.cursor)[1] = 0
        => RowsDown(output) = 0

\* a call with a list of two suggestions under a one-line input has left
\* the terminal cursor on the last row of the list
LeftOnLastSuggestionRow ==
    /\ call.err = "nil"
    /\ call.n = 2
    /\ call.input = <<"a", "a", "a">>
    /\ RowsDown(output) = 2

====
